---- MODULE Spec2Model ----
(***************************************************************************)
(* Booking mutation engine of the voice reservation agent: idempotent       *)
(* create, modify and cancel over a shared relational store, the           *)
(* 15-minute-bucket capacity test, and the best-effort calendar side       *)
(* channel.  Instants are minutes since midnight UTC of one day.           *)
(***************************************************************************)
EXTENDS Integers, Sequences, FiniteSets, TLC

(* ------------------------------ bounds --------------------------------- *)

\* Calls issued in one behaviour.
MaxCalls == 3

\* max_total_guests_per_15min in the policies of the model's businesses.
CapPolicy == 3

\* Longest existing-bookings list handed to an availability query.
MaxExisting == 2

\* Most rows of table businesses when a call context is resolved.
MaxBusinesses == 2

(* ------------------------- program constants --------------------------- *)

BOOKING_DURATION_MINUTES == 90

SLOT_INCREMENT_MINUTES == 15

DEFAULT_BOOKING_DURATION_MINUTES == 90

(* ------------------------------ inputs --------------------------------- *)

\* The server processes; each serves one call at a time (the handlers block
\* on the store and on the calendar), so two calls can be in flight.
Workers == {"w1", "w2"}

\* Optional values: None is the empty tuple, a present value v is <<v>>.
None == <<>>

Some(v) == <<v>>

\* The resolved business handed to a tool: id, capacity policy and whether
\* its calendar integration is google/connected.
Businesses ==
    { [id |-> 1, max_total_guests_per_15min |-> CapPolicy, connected |-> TRUE],
      [id |-> 2, max_total_guests_per_15min |-> CapPolicy, connected |-> FALSE] }

\* Text that the code takes apart or joins (call ids, phones, instants
\* written out, the signals of a call context) is a tuple of one-character
\* strings over Latin-1; the empty tuple is the empty text.
CallIds == { <<"c", "1">> }

Phones == { <<"+", "1", "5">> }

Names == {"Alice", "Bob"}

\* 18:00 and 18:45: two 90-minute bookings at these starts overlap.
StartTimes == {1080, 1125}

\* Party size of a create request: two such bookings in one bucket exceed
\* CapPolicy = 3, one does not.
PartySizes == {2}

\* The party size a modify may ask for: one that alone exceeds the cap.
ModifyPartySizes == {CapPolicy + 1}

\* 18:45, the start a modify may move a booking to.
ModifyStartTimes == {1125}

NotesTexts == {"Window seat"}

EventIds == {"evt_123"}

CreateArgs ==
    [customer_name : Names, customer_phone : Phones, start_time : StartTimes,
     party_size : PartySizes, notes : {None}]

\* Booking ids a modify or cancel request may name.
BookingIds == {1, 2}

\* ModifyBookingArgs: at least one change is present (validate_changes_present).
\* The requests of the model change one field, or all three at once.
ModifyArgs ==
    {a \in [booking_id : BookingIds,
            start_time : {None} \cup {Some(t) : t \in ModifyStartTimes},
            party_size : {None} \cup {Some(p) : p \in ModifyPartySizes},
            notes : {None} \cup {Some(x) : x \in NotesTexts}] :
        Cardinality({f \in {"start_time", "party_size", "notes"} : a[f] # None}) \in {1, 3}}

CancelArgs == [booking_id : BookingIds]

\* Inputs of find_best_available_start_times: an aligned and an unaligned
\* desired start, a party that fits the cap and one that alone exceeds it.
DesiredStarts == {1080, 1087}

FlexibilityMinutes == {0, 15, 30}

QueryPartySizes == {2, CapPolicy + 1}

QueryDurations == {30, 90}

QueryMaxResults == {0, 1, 3}

\* Booking rows an availability query may be given: 17:45-19:15, 18:00-19:30
\* and one ending exactly at 18:00, each confirmed or cancelled.
QueryBookings ==
    [start_time : {1065, 1080}, end_time : {1155, 1170}, party_size : {2},
     status : {"confirmed", "cancelled"}]
      \cup [start_time : {990}, end_time : {1080}, party_size : {2},
            status : {"confirmed"}]

RECURSIVE ListsUpTo(_, _)
ListsUpTo(S, n) ==
    IF n = 0 THEN {<<>>}
    ELSE ListsUpTo(S, n - 1)
           \cup {Append(l, x) : l \in {m \in ListsUpTo(S, n - 1) : Len(m) = n - 1}, x \in S}

QueryArgs ==
    [desired_start : DesiredStarts, flexibility_minutes : FlexibilityMinutes,
     party_size : QueryPartySizes, booking_duration_minutes : QueryDurations,
     max_total_guests_per_15_min : {CapPolicy},
     existing_bookings : ListsUpTo(QueryBookings, MaxExisting),
     max_results : QueryMaxResults]

(* ------------------------------ state ---------------------------------- *)

VARIABLES
    customers,      \* committed rows of table customers
    bookings,       \* committed rows of table bookings
    idem,           \* committed rows of table idempotency_keys
    nextCustomerId, \* sequence behind customers.id
    nextBookingId,  \* sequence behind bookings.id
    calls,          \* calls in flight: their position and session-local state
    issued,         \* number of calls issued so far
    calendar,       \* remote calendar operations attempted so far
    returned,       \* <<idempotency key, payload>> of every create response returned
    last            \* the call that returned most recently, with its response

vars == <<customers, bookings, idem, nextCustomerId, nextBookingId,
          calls, issued, calendar, returned, last>>

(* --------------------------- pure helpers ------------------------------ *)

DigitChars == <<"0", "1", "2", "3", "4", "5", "6", "7", "8", "9">>

\* The other characters of Latin-1 that str.isdigit() accepts: superscript
\* two, three and one.
SuperscriptChars == <<"²", "³", "¹">>

\* The characters of Latin-1 that str.lower() changes (A to Z, and the
\* accented capitals U+00C0 to U+00DE without the multiplication sign), and
\* what it changes them to.
UpperChars == <<"A", "B", "C", "D", "E", "F", "G", "H", "I", "J", "K", "L", "M", "N", "O", "P", "Q", "R", "S", "T", "U", "V", "W", "X", "Y", "Z", "À", "Á", "Â", "Ã", "Ä", "Å", "Æ", "Ç", "È", "É", "Ê", "Ë", "Ì", "Í", "Î", "Ï", "Ð", "Ñ", "Ò", "Ó", "Ô", "Õ", "Ö", "Ø", "Ù", "Ú", "Û", "Ü", "Ý", "Þ">>

LowerChars == <<"a", "b", "c", "d", "e", "f", "g", "h", "i", "j", "k", "l", "m", "n", "o", "p", "q", "r", "s", "t", "u", "v", "w", "x", "y", "z", "à", "á", "â", "ã", "ä", "å", "æ", "ç", "è", "é", "ê", "ë", "ì", "í", "î", "ï", "ð", "ñ", "ò", "ó", "ô", "õ", "ö", "ø", "ù", "ú", "û", "ü", "ý", "þ">>

\* The characters of Latin-1 that str.isspace() accepts and str.strip()
\* removes: tab, line feed, vertical tab, form feed, carriage return, the
\* separators U+001C to U+001F, space, next line U+0085 and no-break space
\* U+00A0.
WhitespaceChars == <<"\t", "\n", "", "\f", "\r", "", "", "", "", " ", "", " ">>

isdigit(ch) ==
    \/ \E i \in DOMAIN DigitChars : DigitChars[i] = ch
    \/ \E i \in DOMAIN SuperscriptChars : SuperscriptChars[i] = ch

isspace_SpaceOnly(ch) == ch = " "

isspace(ch) == \E i \in DOMAIN WhitespaceChars : WhitespaceChars[i] = ch

\* str.lower() on a text.
lower(text) ==
    [i \in DOMAIN text |->
        IF \E k \in DOMAIN UpperChars : UpperChars[k] = text[i]
        THEN LowerChars[CHOOSE k \in DOMAIN UpperChars : UpperChars[k] = text[i]]
        ELSE text[i]]

\* str.strip() on a text.
RECURSIVE lstrip(_)
lstrip(text) ==
    IF text # <<>> /\ isspace(Head(text)) THEN lstrip(Tail(text)) ELSE text

RECURSIVE rstrip(_)
rstrip(text) ==
    IF text # <<>> /\ isspace(text[Len(text)]) THEN rstrip(SubSeq(text, 1, Len(text) - 1))
    ELSE text

strip(text) == rstrip(lstrip(text))

\* str() of a non-negative integer.
RECURSIVE str(_)
str(n) ==
    IF n < 10 THEN <<DigitChars[n + 1]>>
    ELSE Append(str(n \div 10), DigitChars[(n % 10) + 1])

\* Two decimal digits of a field of an instant.
TwoDigits(n) == <<DigitChars[(n \div 10) + 1], DigitChars[(n % 10) + 1]>>

\* datetime.isoformat() of a UTC instant of the modelled day, 2026-02-20:
\* YYYY-MM-DDTHH:MM:SS+00:00 with the seconds at zero.
isoformat(t) ==
    <<"2", "0", "2", "6", "-", "0", "2", "-", "2", "0", "T">>
      \o TwoDigits(t \div 60) \o <<":">> \o TwoDigits(t % 60)
      \o <<":", "0", "0", "+", "0", "0", ":", "0", "0">>

compute_create_booking_idempotency_key_WithPartySize(call_id, args) ==
    call_id \o <<"|">> \o isoformat(args.start_time) \o <<"|">> \o args.customer_phone
      \o <<"|">> \o str(args.party_size)

\* compute_create_booking_idempotency_key, line 37: the three fields joined
\* with "|" into one text.  The SHA-256 digest of line 38 is kept as the text
\* it is taken of: two requests get one key exactly when their joined texts
\* are equal (digest collisions of different texts are left out).
compute_create_booking_idempotency_key(call_id, args) ==
    call_id \o <<"|">> \o isoformat(args.start_time) \o <<"|">> \o args.customer_phone

_find_idempotency_key(key) == {r \in idem : r.key = key}

\* _find_customer_by_phone: the rows of the business with exactly this phone.
\* The loop returns the first of them in the order of a SELECT without ORDER
\* BY, which the database leaves open: the caller takes any one of the set.
_find_customer_by_phone(business_id, phone) ==
    {c \in customers : c.business_id = business_id /\ c.phone = phone}

WithWarning_Dropped(response) == response

WithWarning(response) ==
    [response EXCEPT !.data = [f \in DOMAIN response.data \cup {"warning"} |->
        IF f = "warning" THEN "Calendar sync failed" ELSE response.data[f]]]

CreateResponse(booking, customer) ==
    [ok |-> TRUE,
     data |-> [booking_id |-> booking.id,
               customer_id |-> customer.id,
               customer_name |-> customer.name,
               customer_phone |-> customer.phone,
               start_time |-> isoformat(booking.start_time),
               end_time |-> isoformat(booking.end_time),
               party_size |-> booking.party_size,
               status |-> booking.status,
               source |-> booking.source,
               notes |-> booking.notes]]

\* Value of last before any call has returned.
Idle == [op |-> "none", path |-> "none"]

ReplayApplies_Never(key) == FALSE

\* create_booking_with_idempotency, line 50: a row with the key was found
\* (its response_json is never empty).
ReplayApplies(key) == _find_idempotency_key(key) # {}

(* ------------------------------ create --------------------------------- *)

Init ==
    /\ customers = {}
    /\ bookings = {}
    /\ idem = {}
    /\ nextCustomerId = 1
    /\ nextBookingId = 1
    /\ calls = {}
    /\ issued = 0
    /\ calendar = {}
    /\ returned = {}
    /\ last = Idle

CanIssue == issued < MaxCalls /\ Cardinality(calls) < Cardinality(Workers)

\* The call record with its position and some of its fields replaced.
At(c, pc, fields) ==
    [f \in DOMAIN c |-> IF f = "pc" THEN pc
                        ELSE IF f \in DOMAIN fields THEN fields[f] ELSE c[f]]

\* create_booking_with_idempotency, lines 47-51: a stored response exists
\* under the key and is returned as it is.
CreateReplay(business, call_id, args) ==
    LET key == compute_create_booking_idempotency_key(call_id, args)
        existing == _find_idempotency_key(key)
    IN  /\ CanIssue
        /\ ReplayApplies(key)
        /\ issued' = issued + 1
        /\ LET response == (CHOOSE r \in existing : TRUE).response_json
           IN  /\ returned' = returned \cup {<<key, response>>}
               /\ last' = [op |-> "create", path |-> "replay",
                           business_id |-> business.id, key |-> key,
                           args |-> args, response |-> response]
        /\ UNCHANGED <<customers, bookings, idem, nextCustomerId, nextBookingId,
                       calls, calendar>>

\* create_booking_with_idempotency, lines 47-51: the SELECT of line 49 finds
\* no stored response under the key; the call goes on to line 53.
CreateBegin(business, call_id, args) ==
    LET key == compute_create_booking_idempotency_key(call_id, args)
    IN  /\ CanIssue
        /\ ~ReplayApplies(key)
        /\ issued' = issued + 1
        /\ calls' = calls \cup
              {[n |-> issued + 1, op |-> "create", pc |-> "find_customer",
                business |-> business, key |-> key, args |-> args,
                customer |-> None, new_customer |-> FALSE, rename |-> FALSE,
                booking |-> None, response_json |-> None]}
        /\ UNCHANGED <<customers, bookings, idem, nextCustomerId, nextBookingId,
                       calendar, returned, last>>

\* create_booking_with_idempotency, lines 53-58 and 66-67: the SELECT of the
\* customers.  A row found gets the request's name on the session's object;
\* that is a pending UPDATE only if the name differs from the one loaded.
CreateFindCustomer(c) ==
    LET found == _find_customer_by_phone(c.business.id, c.args.customer_phone)
    IN  /\ c \in calls /\ c.op = "create" /\ c.pc = "find_customer"
        /\ IF found = {}
           THEN calls' = (calls \ {c}) \cup {At(c, "insert_customer", <<>>)}
           ELSE \E row \in found :
                   calls' = (calls \ {c}) \cup
                      {At(c, "insert_booking",
                          [customer |-> [row EXCEPT !.name = c.args.customer_name],
                           rename |-> (row.name # c.args.customer_name)])}
        /\ UNCHANGED <<customers, bookings, idem, nextCustomerId, nextBookingId,
                       issued, calendar, returned, last>>

\* create_booking_with_idempotency, lines 59-65: no customer was found; the
\* INSERT of the flush draws the next customer id.  The row is visible to
\* other sessions only after the commit.
CreateInsertCustomer(c) ==
    /\ c \in calls /\ c.op = "create" /\ c.pc = "insert_customer"
    /\ nextCustomerId' = nextCustomerId + 1
    /\ calls' = (calls \ {c}) \cup
          {At(c, "insert_booking",
              [customer |-> [id |-> nextCustomerId, business_id |-> c.business.id,
                             name |-> c.args.customer_name,
                             phone |-> c.args.customer_phone],
               new_customer |-> TRUE])}
    /\ UNCHANGED <<customers, bookings, idem, nextBookingId, issued, calendar,
                   returned, last>>

\* The UPDATE of the customer's name that another session has flushed and not
\* yet committed or rolled back holds the row lock: a second UPDATE of the row
\* waits for it.
CustomerRowLocked(c) ==
    \E d \in calls \ {c} :
        /\ d.op = "create" /\ d.pc = "commit"
        /\ d.rename /\ d.customer.id = c.customer.id

\* create_booking_with_idempotency, lines 69-104: the flush of line 81 sends
\* the pending UPDATE of the customer's name and the INSERT of the booking,
\* which draws the next booking id; the response is built from the session's
\* objects and the idempotency record is added to the session.
CreateInsertBooking(c) ==
    /\ c \in calls /\ c.op = "create" /\ c.pc = "insert_booking"
    /\ c.rename => ~CustomerRowLocked(c)
    /\ nextBookingId' = nextBookingId + 1
    /\ LET booking == [id |-> nextBookingId, business_id |-> c.business.id,
                       customer_id |-> c.customer.id,
                       start_time |-> c.args.start_time,
                       end_time |-> c.args.start_time + BOOKING_DURATION_MINUTES,
                       party_size |-> c.args.party_size, status |-> "confirmed",
                       notes |-> c.args.notes, source |-> "retell",
                       external_event_id |-> None, external_event_provider |-> None]
       IN  calls' = (calls \ {c}) \cup
              {At(c, "commit",
                  [booking |-> booking,
                   response_json |-> CreateResponse(booking, c.customer)])}
    /\ UNCHANGED <<customers, bookings, idem, nextCustomerId, issued, calendar,
                   returned, last>>

UniqueViolation_NoIndex(key) == FALSE

\* The unique index on idempotency_keys.key rejects a second row with the key.
UniqueViolation(key) == \E r \in idem : r.key = key

\* _is_google_calendar_connected / the business half of _should_sync_google_event.
_is_google_calendar_connected(business) == business.connected

\* The customer write of the session applied to the committed table: the
\* INSERT of a new row, or the UPDATE of the name of the row found when the
\* request's name differed from the name loaded; nothing otherwise.
CommitCustomer(c) ==
    IF c.new_customer
    THEN customers \cup {c.customer}
    ELSE IF c.rename
         THEN {IF row.id = c.customer.id THEN [row EXCEPT !.name = c.customer.name]
               ELSE row : row \in customers}
         ELSE customers

CreateReturn(c, path, response) ==
    /\ returned' = returned \cup {<<c.key, response>>}
    /\ last' = [op |-> "create", path |-> path,
                business_id |-> c.business.id, key |-> c.key,
                args |-> c.args, response |-> response]

\* create_booking_with_idempotency, line 106 succeeding: customer, booking and
\* idempotency record become visible together.  A business without a connected
\* calendar returns at line 133 right away.
CreateCommit(c) ==
    /\ c \in calls /\ c.op = "create" /\ c.pc = "commit"
    /\ ~UniqueViolation(c.key)
    /\ customers' = CommitCustomer(c)
    /\ bookings' = bookings \cup {c.booking}
    /\ idem' = idem \cup {[key |-> c.key, response_json |-> c.response_json]}
    /\ IF _is_google_calendar_connected(c.business)
       THEN /\ calls' = (calls \ {c}) \cup {[c EXCEPT !.pc = "calendar"]}
            /\ UNCHANGED <<returned, last>>
       ELSE /\ calls' = calls \ {c}
            /\ CreateReturn(c, "created", c.response_json)
    /\ UNCHANGED <<nextCustomerId, nextBookingId, issued, calendar>>

ConflictResponse_Reraise(key) ==
    [ok |-> FALSE, error_code |-> "SYSTEM_DOWN",
     human_message |-> "Temporary issue creating booking. Please transfer call."]

\* create_booking_with_idempotency, lines 136-138: the stored response read
\* back after the rollback.
ConflictResponse(key) ==
    (CHOOSE r \in _find_idempotency_key(key) : TRUE).response_json

\* create_booking_with_idempotency, lines 134-139: the commit raises
\* IntegrityError; the session is rolled back (its customer and booking
\* writes are discarded, the ids drawn stay drawn) and the stored response of
\* the call that committed first is read and returned.
CreateConflict(c) ==
    /\ c \in calls /\ c.op = "create" /\ c.pc = "commit"
    /\ UniqueViolation(c.key)
    /\ calls' = calls \ {c}
    /\ CreateReturn(c, "conflict", ConflictResponse(c.key))
    /\ UNCHANGED <<customers, bookings, idem, nextCustomerId, nextBookingId,
                   issued, calendar>>

PersistWarning_EveryRow(rows, key, response) ==
    {[r EXCEPT !.response_json = response] : r \in rows}

\* The stored response after a failed calendar sync, lines 127-131.
PersistWarning(rows, key, response) ==
    {IF r.key = key THEN [r EXCEPT !.response_json = response] ELSE r : r \in rows}

CreateCalendarOk_Unsaved(c, event_id) ==
    /\ c \in calls /\ c.op = "create" /\ c.pc = "calendar"
    /\ calendar' = calendar \cup {[op |-> "create_event", booking_id |-> c.booking.id]}
    /\ calls' = calls \ {c}
    /\ CreateReturn(c, "created", c.response_json)
    /\ UNCHANGED <<customers, bookings, idem, nextCustomerId, nextBookingId, issued>>

\* create_booking_with_idempotency, lines 108-119 and 133: the calendar call
\* returns; a usable event id is stored on the booking.
CreateCalendarOk(c, event_id) ==
    /\ c \in calls /\ c.op = "create" /\ c.pc = "calendar"
    /\ calendar' = calendar \cup {[op |-> "create_event", booking_id |-> c.booking.id]}
    /\ bookings' = IF event_id = None THEN bookings
                   ELSE {IF b.id = c.booking.id
                         THEN [b EXCEPT !.external_event_provider = Some("google"),
                                        !.external_event_id = event_id]
                         ELSE b : b \in bookings}
    /\ calls' = calls \ {c}
    /\ CreateReturn(c, "created", c.response_json)
    /\ UNCHANGED <<customers, idem, nextCustomerId, nextBookingId, issued>>

\* create_booking_with_idempotency, lines 120-133: the calendar call raises;
\* the warning is attached to the response and to the stored response.
CreateCalendarFail(c) ==
    /\ c \in calls /\ c.op = "create" /\ c.pc = "calendar"
    /\ calendar' = calendar \cup {[op |-> "create_event", booking_id |-> c.booking.id]}
    /\ idem' = PersistWarning(idem, c.key, WithWarning(c.response_json))
    /\ calls' = calls \ {c}
    /\ CreateReturn(c, "created", WithWarning(c.response_json))
    /\ UNCHANGED <<customers, bookings, nextCustomerId, nextBookingId, issued>>

(* --------------------------- availability ------------------------------ *)

\* fetch_existing_bookings: the rows of the business that end after
\* search_start and start before search_end + duration.
fetch_existing_bookings(business_id, search_start, search_end, booking_duration_minutes) ==
    {b \in bookings : /\ b.business_id = business_id
                      /\ b.end_time > search_start
                      /\ b.start_time < search_end + booking_duration_minutes}

\* A query result as a list the code iterates, here by ascending id.  The
\* SELECT has no ORDER BY; the scan of _is_slot_available gives the same
\* answer for every order of the list (the running total only grows and is
\* compared after every row counted).
RECURSIVE RowList(_)
RowList(rows) ==
    IF rows = {} THEN <<>>
    ELSE LET r == CHOOSE x \in rows : \A q \in rows : x.id <= q.id
         IN  <<r>> \o RowList(rows \ {r})

\* The for loop of _is_slot_available, lines 151-165, from position i with
\* the running total: TRUE when it executes `return False`.  The comparison
\* with the cap sits inside the loop, after each booking that is not skipped.
RECURSIVE ScanRejects(_, _, _, _, _, _)
ScanRejects(existing_bookings, i, total_guests, bucket, bucket_end, cap) ==
    IF i > Len(existing_bookings) THEN FALSE
    ELSE LET booking == existing_bookings[i]
         IN  IF booking.status = "cancelled"
             THEN ScanRejects(existing_bookings, i + 1, total_guests, bucket, bucket_end, cap)
             ELSE LET total == IF booking.start_time < bucket_end /\ booking.end_time > bucket
                               THEN total_guests + booking.party_size
                               ELSE total_guests
                  IN  IF total > cap THEN TRUE
                      ELSE ScanRejects(existing_bookings, i + 1, total, bucket, bucket_end, cap)

\* The while loop of _is_slot_available, lines 148-168, from `bucket`.
RECURSIVE BucketsPass(_, _, _, _, _)
BucketsPass(bucket, candidate_end, requested_party_size, cap, existing_bookings) ==
    IF ~(bucket < candidate_end) THEN TRUE
    ELSE IF ScanRejects(existing_bookings, 1, requested_party_size, bucket,
                        bucket + SLOT_INCREMENT_MINUTES, cap)
         THEN FALSE
         ELSE BucketsPass(bucket + SLOT_INCREMENT_MINUTES, candidate_end,
                          requested_party_size, cap, existing_bookings)

_is_slot_available(candidate_start, requested_party_size, booking_duration_minutes, max_total_guests_per_15_min, existing_bookings) ==
    BucketsPass(candidate_start, candidate_start + booking_duration_minutes,
                requested_party_size, max_total_guests_per_15_min, existing_bookings)

is_slot_available(candidate_start, party_size, booking_duration_minutes, max_total_guests_per_15_min, existing_bookings) ==
    _is_slot_available(candidate_start, party_size, booking_duration_minutes,
                       max_total_guests_per_15_min, existing_bookings)

\* _floor_to_15_min: the minute field floored to a multiple of 15, the hour kept.
_floor_to_15_min(dt) ==
    (dt \div 60) * 60 + ((dt % 60) \div SLOT_INCREMENT_MINUTES) * SLOT_INCREMENT_MINUTES

\* _iter_15min_slots as the list it yields, from `cursor`.
RECURSIVE SlotsFrom(_, _)
SlotsFrom(cursor, end) ==
    IF cursor <= end THEN <<cursor>> \o SlotsFrom(cursor + SLOT_INCREMENT_MINUTES, end)
    ELSE <<>>

_iter_15min_slots(start, end) == SlotsFrom(_floor_to_15_min(start), end)

Abs(x) == IF x < 0 THEN -x ELSE x

RankedBefore_LaterFirst(a, b, desired_start) ==
    \/ Abs(a - desired_start) < Abs(b - desired_start)
    \/ Abs(a - desired_start) = Abs(b - desired_start) /\ a > b

\* The sort key of line 93 compared: (distance to desired_start, instant).
RankedBefore(a, b, desired_start) ==
    \/ Abs(a - desired_start) < Abs(b - desired_start)
    \/ Abs(a - desired_start) = Abs(b - desired_start) /\ a < b

\* candidates.sort(key=...), line 93.
RECURSIVE SortCandidates(_, _)
SortCandidates(S, desired_start) ==
    IF S = {} THEN <<>>
    ELSE LET first == CHOOSE a \in S : \A b \in S \ {a} : RankedBefore(a, b, desired_start)
         IN  <<first>> \o SortCandidates(S \ {first}, desired_start)

\* The loop of find_best_available_start_times, lines 95-107, from position i.
RECURSIVE CollectAvailable(_, _, _, _)
CollectAvailable(candidates, i, available, q) ==
    IF i > Len(candidates) THEN available
    ELSE IF _is_slot_available(candidates[i], q.party_size, q.booking_duration_minutes,
                               q.max_total_guests_per_15_min, q.existing_bookings)
         THEN LET grown == Append(available, candidates[i])
              IN  IF Len(grown) >= q.max_results THEN grown
                  ELSE CollectAvailable(candidates, i + 1, grown, q)
         ELSE CollectAvailable(candidates, i + 1, available, q)

find_best_available_start_times(q) ==
    LET window_start == q.desired_start - q.flexibility_minutes
        window_end == q.desired_start + q.flexibility_minutes
        slots == _iter_15min_slots(window_start, window_end)
        candidates == SortCandidates({slots[i] : i \in 1..Len(slots)}, q.desired_start)
    IN  CollectAvailable(candidates, 1, <<>>, q)

\* An availability query is answered.
FindBest(c) ==
    /\ c \in calls /\ c.op = "find_best_available_start_times"
    /\ calls' = calls \ {c}
    /\ last' = [op |-> c.op, path |-> "returned", args |-> c.args,
                response |-> find_best_available_start_times(c.args)]
    /\ UNCHANGED <<customers, bookings, idem, nextCustomerId, nextBookingId,
                   issued, calendar, returned>>

(* ------------------------- modify and cancel --------------------------- *)

find_booking_for_business_AnyTenant(business_id, booking_id) ==
    {b \in bookings : b.id = booking_id}

\* find_booking_for_business: the row with this id if it is of this business
\* (ids are unique, so at most one row).
find_booking_for_business(business_id, booking_id) ==
    {b \in bookings : b.id = booking_id /\ b.business_id = business_id}

BookingNotFound ==
    [ok |-> FALSE, error_code |-> "BOOKING_NOT_FOUND",
     human_message |-> "Booking not found for this business."]

BookingAlreadyCancelled ==
    [ok |-> FALSE, error_code |-> "BOOKING_ALREADY_CANCELLED",
     human_message |-> "Booking is already cancelled."]

NoAvailability ==
    [ok |-> FALSE, error_code |-> "NO_AVAILABILITY",
     human_message |-> "No availability for requested updated start time."]

\* _should_sync_google_event on a booking row.
_should_sync_google_event(business, booking) ==
    /\ _is_google_calendar_connected(business)
    /\ booking.external_event_provider = Some("google")
    /\ booking.external_event_id # None

\* _find_customer_for_booking: the customer rows of the booking.
_find_customer_for_booking(booking) ==
    {c \in customers : c.id = booking.customer_id /\ c.business_id = booking.business_id}

\* The committed row with this id (a booking row is never deleted).
Row(booking_id) == CHOOSE b \in bookings : b.id = booking_id

ModifyFeasible_CountsCurrent(business, booking, new_start, new_party_size) ==
    is_slot_available(new_start, new_party_size, BOOKING_DURATION_MINUTES,
                      business.max_total_guests_per_15min,
                      RowList(fetch_existing_bookings(business.id, new_start, new_start,
                                                      BOOKING_DURATION_MINUTES)))

\* The feasibility test of modify_booking, lines 79-98.  Of the rows read at
\* line 60 the session still holds the booking alone (find_booking_for_business
\* drops the others when it returns), so the SELECT of line 84 hands out the
\* other rows as they are committed now; the booking is left out at line 91.
ModifyFeasible(business, booking, new_start, new_party_size) ==
    LET existing == fetch_existing_bookings(business.id, new_start, new_start,
                                            BOOKING_DURATION_MINUTES)
        existing_without_current == {b \in existing : b.id # booking.id}
    IN  is_slot_available(new_start, new_party_size, BOOKING_DURATION_MINUTES,
                          business.max_total_guests_per_15min,
                          RowList(existing_without_current))

ManageReturn(op, path, business, args, response) ==
    last' = [op |-> op, path |-> path, business_id |-> business.id,
             booking_id |-> args.booking_id, response |-> response]

\* modify_booking, lines 60-72: no booking of this business has the id, or the
\* booking is cancelled; the request is rejected before anything is written.
ModifyReject(business, args) ==
    LET found == find_booking_for_business(business.id, args.booking_id)
    IN  /\ CanIssue
        /\ \A booking \in found : booking.status = "cancelled"
        /\ issued' = issued + 1
        /\ ManageReturn("modify", "rejected", business, args,
                        IF found = {} THEN BookingNotFound ELSE BookingAlreadyCancelled)
        /\ UNCHANGED <<customers, bookings, idem, nextCustomerId, nextBookingId,
                       calls, calendar, returned>>

\* modify_booking, lines 60-77: the SELECT of line 60 reads the table; the
\* booking is found and not cancelled.  The new values follow
\* from the request and the row loaded; a request without a new start time
\* goes on to lines 105-109, one with a new start time to the SELECT of line 84.
ModifyBegin(business, args) ==
    LET found == find_booking_for_business(business.id, args.booking_id)
    IN  /\ CanIssue
        /\ issued' = issued + 1
        /\ \E booking \in found :
              LET new_start == IF args.start_time # None THEN args.start_time[1]
                               ELSE booking.start_time
                  new_party_size == IF args.party_size # None THEN args.party_size[1]
                                    ELSE booking.party_size
                  new_notes == IF args.notes # None THEN args.notes ELSE booking.notes
                  new_end == new_start + BOOKING_DURATION_MINUTES
                  new_values == [start_time |-> new_start, end_time |-> new_end,
                                 party_size |-> new_party_size, notes |-> new_notes]
              IN  /\ booking.status # "cancelled"
                  /\ calls' = calls \cup
                        {[n |-> issued + 1, op |-> "modify",
                          pc |-> IF args.start_time # None THEN "fetch" ELSE "commit",
                          business |-> business, args |-> args,
                          booking_id |-> booking.id, booking |-> booking,
                          new_start |-> new_start, new_party_size |-> new_party_size,
                          \* the UPDATE carries the columns whose value differs
                          \* from the row loaded
                          changes |-> [f \in {g \in DOMAIN new_values :
                                                new_values[g] # booking[g]}
                                         |-> new_values[f]]]}
        /\ UNCHANGED <<customers, bookings, idem, nextCustomerId, nextBookingId,
                       calendar, returned, last>>

\* modify_booking, lines 79-103: the SELECT of line 84 and the feasibility
\* test fail the new start time; NO_AVAILABILITY is returned.
ModifyNoAvailability(c) ==
    /\ c \in calls /\ c.op = "modify" /\ c.pc = "fetch"
    /\ ~ModifyFeasible(c.business, c.booking, c.new_start, c.new_party_size)
    /\ calls' = calls \ {c}
    /\ ManageReturn("modify", "rejected", c.business, c.args, NoAvailability)
    /\ UNCHANGED <<customers, bookings, idem, nextCustomerId, nextBookingId,
                   issued, calendar, returned>>

\* modify_booking, lines 79-108: the SELECT of line 84 and the feasibility
\* test pass; the new values are set on the session's row.
ModifyAvailable(c) ==
    /\ c \in calls /\ c.op = "modify" /\ c.pc = "fetch"
    /\ ModifyFeasible(c.business, c.booking, c.new_start, c.new_party_size)
    /\ calls' = (calls \ {c}) \cup {[c EXCEPT !.pc = "commit"]}
    /\ UNCHANGED <<customers, bookings, idem, nextCustomerId, nextBookingId,
                   issued, calendar, returned, last>>

ApplyChanges_Unwritten(booking_id, changes) == bookings

ApplyChanges_WholeRow(booking_id, changes) ==
    {IF b.id = booking_id
     THEN [f \in DOMAIN b |-> IF f \in DOMAIN changes THEN changes[f]
                              ELSE IF f = "status" THEN "confirmed" ELSE b[f]]
     ELSE b : b \in bookings}

\* The UPDATE of one booking row at commit.
ApplyChanges(booking_id, changes) ==
    {IF b.id = booking_id
     THEN [f \in DOMAIN b |-> IF f \in DOMAIN changes THEN changes[f] ELSE b[f]]
     ELSE b : b \in bookings}

ModifyResponse(booking, warning) ==
    LET data == [booking_id |-> booking.id,
                 start_time |-> isoformat(booking.start_time),
                 end_time |-> isoformat(booking.end_time),
                 party_size |-> booking.party_size,
                 notes |-> booking.notes,
                 status |-> booking.status,
                 source |-> booking.source]
        response == [ok |-> TRUE, data |-> data]
    IN  IF warning THEN WithWarning(response) ELSE response

CancelResponse_Error(booking, warning) ==
    [ok |-> FALSE, error_code |-> "BOOKING_ALREADY_CANCELLED",
     human_message |-> "Booking is already cancelled."]

CancelResponse(booking, warning) ==
    LET response == [ok |-> TRUE,
                     data |-> [booking_id |-> booking.id, status |-> booking.status]]
    IN  IF warning THEN WithWarning(response) ELSE response

\* modify_booking, line 109: the UPDATE and the commit.  The commit expires
\* the session's objects.
ModifyCommit(c) ==
    /\ c \in calls /\ c.op = "modify" /\ c.pc = "commit"
    /\ bookings' = ApplyChanges(c.booking_id, c.changes)
    /\ calls' = (calls \ {c}) \cup {[c EXCEPT !.pc = "reread"]}
    /\ UNCHANGED <<customers, idem, nextCustomerId, nextBookingId, issued,
                   calendar, returned, last>>

\* modify_booking, lines 111-114 and, when no calendar event is synced, lines
\* 132-146: the booking row is loaded again as it is committed now; the
\* decision to sync and the response are taken from it.
ModifyReread(c) ==
    /\ c \in calls /\ c.op = "modify" /\ c.pc = "reread"
    /\ LET booking == Row(c.booking_id)
       IN  IF /\ _should_sync_google_event(c.business, booking)
              /\ _find_customer_for_booking(booking) # {}
           THEN /\ calls' = (calls \ {c}) \cup
                              {[c EXCEPT !.pc = "calendar", !.booking = booking]}
                /\ UNCHANGED last
           ELSE /\ calls' = calls \ {c}
                /\ ManageReturn("modify", "modified", c.business, c.args,
                                ModifyResponse(booking, FALSE))
    /\ UNCHANGED <<customers, bookings, idem, nextCustomerId, nextBookingId,
                   issued, calendar, returned>>

\* update_event, google_calendar.py lines 152-188: the commit of the token
\* refresh (line 78) expires the session's objects, and the event payload is
\* built from the booking row loaded again as it is committed now (line 162).
\* The request is then sent.
ModifyUpdateEvent(c) ==
    /\ c \in calls /\ c.op = "modify" /\ c.pc = "calendar"
    /\ calls' = (calls \ {c}) \cup
                   {[c EXCEPT !.pc = "patch", !.booking = Row(c.booking_id)]}
    /\ UNCHANGED <<customers, bookings, idem, nextCustomerId, nextBookingId,
                   issued, calendar, returned, last>>

\* modify_booking, lines 115-146: update_event returns (ok) or raises.  When it
\* returns, the response is built from the row the session loaded for the
\* payload; when it raises, the rollback of line 124 expires the session's
\* objects and the response is built from the row as it is committed then.
ModifyCalendar(c, ok) ==
    /\ c \in calls /\ c.op = "modify" /\ c.pc = "patch"
    /\ calendar' = calendar \cup {[op |-> "update_event", booking_id |-> c.booking_id]}
    /\ calls' = calls \ {c}
    /\ ManageReturn("modify", "modified", c.business, c.args,
                    ModifyResponse(IF ok THEN c.booking ELSE Row(c.booking_id), ~ok))
    /\ UNCHANGED <<customers, bookings, idem, nextCustomerId, nextBookingId,
                   issued, returned>>

\* cancel_booking, lines 154-169: no booking for this business, or the
\* booking is cancelled already; nothing is written.
CancelNoop(business, args) ==
    LET found == find_booking_for_business(business.id, args.booking_id)
    IN  /\ CanIssue
        /\ \A booking \in found : booking.status = "cancelled"
        /\ issued' = issued + 1
        /\ IF found = {}
           THEN ManageReturn("cancel", "rejected", business, args, BookingNotFound)
           ELSE ManageReturn("cancel", "already", business, args,
                             CancelResponse(CHOOSE booking \in found : TRUE, FALSE))
        /\ UNCHANGED <<customers, bookings, idem, nextCustomerId, nextBookingId,
                       calls, calendar, returned>>

\* cancel_booking, lines 154-171: the booking is found and not cancelled; the
\* status is set on the session's row.
CancelBegin(business, args) ==
    LET found == find_booking_for_business(business.id, args.booking_id)
    IN  /\ CanIssue
        /\ issued' = issued + 1
        /\ \E booking \in found :
              /\ booking.status # "cancelled"
              /\ calls' = calls \cup
                    {[n |-> issued + 1, op |-> "cancel", pc |-> "commit",
                      business |-> business, args |-> args, booking_id |-> booking.id,
                      changes |-> [status |-> "cancelled"]]}
        /\ UNCHANGED <<customers, bookings, idem, nextCustomerId, nextBookingId,
                       calendar, returned, last>>

\* cancel_booking, line 172: the UPDATE of the status and the commit.
CancelCommit(c) ==
    /\ c \in calls /\ c.op = "cancel" /\ c.pc = "commit"
    /\ bookings' = ApplyChanges(c.booking_id, c.changes)
    /\ calls' = (calls \ {c}) \cup {[c EXCEPT !.pc = "reread"]}
    /\ UNCHANGED <<customers, idem, nextCustomerId, nextBookingId, issued,
                   calendar, returned, last>>

\* cancel_booking, lines 174-175 and, when no calendar event is synced, lines
\* 191-200: the booking row is loaded again as it is committed now.
CancelReread(c) ==
    /\ c \in calls /\ c.op = "cancel" /\ c.pc = "reread"
    /\ LET booking == Row(c.booking_id)
       IN  IF _should_sync_google_event(c.business, booking)
           THEN /\ calls' = (calls \ {c}) \cup {[c EXCEPT !.pc = "calendar"]}
                /\ UNCHANGED last
           ELSE /\ calls' = calls \ {c}
                /\ ManageReturn("cancel", "cancelled", c.business, c.args,
                                CancelResponse(booking, FALSE))
    /\ UNCHANGED <<customers, bookings, idem, nextCustomerId, nextBookingId,
                   issued, calendar, returned>>

\* cancel_booking, lines 176-200: delete_event returns (ok) or raises.
CancelCalendar(c, ok) ==
    /\ c \in calls /\ c.op = "cancel" /\ c.pc = "calendar"
    /\ calendar' = calendar \cup {[op |-> "delete_event", booking_id |-> c.booking_id]}
    /\ calls' = calls \ {c}
    /\ ManageReturn("cancel", "cancelled", c.business, c.args,
                    CancelResponse(Row(c.booking_id), ~ok))
    /\ UNCHANGED <<customers, bookings, idem, nextCustomerId, nextBookingId,
                   issued, returned>>

(* --------------------------- specification ----------------------------- *)

Next ==
    \/ \E business \in Businesses, call_id \in CallIds, args \in CreateArgs :
          CreateReplay(business, call_id, args)
    \/ \E business \in Businesses, call_id \in CallIds, args \in CreateArgs :
          CreateBegin(business, call_id, args)
    \/ \E c \in calls : CreateFindCustomer(c)
    \/ \E c \in calls : CreateInsertCustomer(c)
    \/ \E c \in calls : CreateInsertBooking(c)
    \/ \E c \in calls : CreateCommit(c)
    \/ \E c \in calls : CreateConflict(c)
    \/ \E c \in calls, event_id \in {Some(e) : e \in EventIds} \cup {None} :
          CreateCalendarOk(c, event_id)
    \/ \E c \in calls : CreateCalendarFail(c)
    \/ \E business \in Businesses, args \in ModifyArgs : ModifyReject(business, args)
    \/ \E business \in Businesses, args \in ModifyArgs : ModifyBegin(business, args)
    \/ \E c \in calls : ModifyNoAvailability(c)
    \/ \E c \in calls : ModifyAvailable(c)
    \/ \E c \in calls : ModifyCommit(c)
    \/ \E c \in calls : ModifyReread(c)
    \/ \E c \in calls : ModifyUpdateEvent(c)
    \/ \E c \in calls, ok \in BOOLEAN : ModifyCalendar(c, ok)
    \/ \E business \in Businesses, args \in CancelArgs : CancelNoop(business, args)
    \/ \E business \in Businesses, args \in CancelArgs : CancelBegin(business, args)
    \/ \E c \in calls : CancelCommit(c)
    \/ \E c \in calls : CancelReread(c)
    \/ \E c \in calls, ok \in BOOLEAN : CancelCalendar(c, ok)

Spec == Init /\ [][Next]_vars

\* The create endpoint on its own, served by both workers.
NextCreate ==
    \/ \E business \in Businesses, call_id \in CallIds, args \in CreateArgs :
          CreateReplay(business, call_id, args)
    \/ \E business \in Businesses, call_id \in CallIds, args \in CreateArgs :
          CreateBegin(business, call_id, args)
    \/ \E c \in calls : CreateFindCustomer(c)
    \/ \E c \in calls : CreateInsertCustomer(c)
    \/ \E c \in calls : CreateInsertBooking(c)
    \/ \E c \in calls : CreateCommit(c)
    \/ \E c \in calls : CreateConflict(c)
    \/ \E c \in calls, event_id \in {Some(e) : e \in EventIds} \cup {None} :
          CreateCalendarOk(c, event_id)
    \/ \E c \in calls : CreateCalendarFail(c)

SpecCreate == Init /\ [][NextCreate]_vars

\* The availability engine on its own: one query, with inputs drawn from
\* QueryArgs, is pending and gets answered.
InitAvail ==
    /\ customers = {}
    /\ bookings = {}
    /\ idem = {}
    /\ nextCustomerId = 1
    /\ nextBookingId = 1
    /\ \E q \in QueryArgs :
          calls = {[n |-> 1, op |-> "find_best_available_start_times", args |-> q]}
    /\ issued = 1
    /\ calendar = {}
    /\ returned = {}
    /\ last = Idle

NextAvail == \E c \in calls : FindBest(c)

SpecAvail == InitAvail /\ [][NextAvail]_vars

\* Booking rows the table may hold when an availability request arrives:
\* 16:20-17:50 (created with a start that is not 15-minute aligned),
\* 18:00-19:30 and 19:45-21:15 of business 1, and 18:00-19:30 of business 2.
StoredBookings ==
    { [id |-> 1, business_id |-> 1, customer_id |-> 1, start_time |-> 980,
       end_time |-> 1070, party_size |-> 2, status |-> "confirmed", notes |-> None,
       source |-> "retell", external_event_id |-> None, external_event_provider |-> None],
      [id |-> 2, business_id |-> 1, customer_id |-> 1, start_time |-> 1080,
       end_time |-> 1170, party_size |-> 2, status |-> "confirmed", notes |-> None,
       source |-> "retell", external_event_id |-> None, external_event_provider |-> None],
      [id |-> 3, business_id |-> 1, customer_id |-> 1, start_time |-> 1185,
       end_time |-> 1275, party_size |-> 2, status |-> "cancelled", notes |-> None,
       source |-> "retell", external_event_id |-> None, external_event_provider |-> None],
      [id |-> 4, business_id |-> 2, customer_id |-> 2, start_time |-> 1080,
       end_time |-> 1170, party_size |-> 2, status |-> "confirmed", notes |-> None,
       source |-> "retell", external_event_id |-> None, external_event_provider |-> None] }

\* A check_availability request after its desired start has been resolved to UTC.
AvailabilityRequests ==
    [desired_start_utc : DesiredStarts, flexibility_minutes : FlexibilityMinutes,
     party_size : QueryPartySizes]

\* check_availability_tool, lines 385-429: the existing bookings are fetched
\* for the search window and handed, with the policy values of the business,
\* to find_best_available_start_times; at most three starts are reported.
check_availability_tool(c) ==
    /\ c \in calls /\ c.op = "check_availability"
    /\ LET search_start == c.args.desired_start_utc - c.args.flexibility_minutes
           search_end == c.args.desired_start_utc + c.args.flexibility_minutes
           \* policies.get("default_booking_duration_minutes", DEFAULT_...)
           booking_duration_minutes ==
               IF "default_booking_duration_minutes" \in DOMAIN c.business
               THEN c.business.default_booking_duration_minutes
               ELSE DEFAULT_BOOKING_DURATION_MINUTES
           existing_bookings == fetch_existing_bookings(c.business.id, search_start,
                                                        search_end, booking_duration_minutes)
           available_slots ==
               find_best_available_start_times(
                   [desired_start |-> c.args.desired_start_utc,
                    flexibility_minutes |-> c.args.flexibility_minutes,
                    party_size |-> c.args.party_size,
                    booking_duration_minutes |-> booking_duration_minutes,
                    max_total_guests_per_15_min |-> c.business.max_total_guests_per_15min,
                    existing_bookings |-> RowList(existing_bookings),
                    max_results |-> 3])
       IN  last' = [op |-> c.op, path |-> "returned", business_id |-> c.business.id,
                    business |-> c.business, args |-> c.args, existing_bookings |-> existing_bookings,
                    response |->
                        [ok |-> TRUE,
                         data |-> [result |-> IF available_slots = <<>> THEN "NO_AVAILABILITY"
                                              ELSE "AVAILABLE",
                                   available_start_times |->
                                       [i \in 1..Len(available_slots) |->
                                           isoformat(available_slots[i])]]]]
    /\ calls' = calls \ {c}
    /\ UNCHANGED <<customers, bookings, idem, nextCustomerId, nextBookingId,
                   issued, calendar, returned>>

\* The availability endpoint over a stored table: one request is pending.
InitQuery ==
    /\ customers = {}
    /\ bookings \in SUBSET StoredBookings
    /\ idem = {}
    /\ nextCustomerId = 3
    /\ nextBookingId = 5
    /\ \E business \in Businesses, args \in AvailabilityRequests :
          calls = {[n |-> 1, op |-> "check_availability", business |-> business,
                    args |-> args]}
    /\ issued = 1
    /\ calendar = {}
    /\ returned = {}
    /\ last = Idle

NextQuery == \E c \in calls : check_availability_tool(c)

SpecQuery == InitQuery /\ [][NextQuery]_vars

(* -------------------------- tenant resolution -------------------------- *)

\* In a call context and in a row of businesses the empty tuple is both the
\* empty text and a missing value, which the code treats alike (`value or ""`,
\* `not value`).
\* request_parser._pick_string: the stripped text, None when nothing is left.
_pick_string(value) == strip(value)

\* _normalize_phone: the digits of the value, the empty text for a missing one.
RECURSIVE _normalize_phone(_)
_normalize_phone(value) ==
    IF value = <<>> THEN <<>>
    ELSE (IF isdigit(Head(value)) THEN <<Head(value)>> ELSE <<>>)
           \o _normalize_phone(Tail(value))

\* The first business of the list among the rows numbered in matching, None
\* when no row matches: the loops return at the first row that passes.
FirstBusiness(businesses, matching) ==
    IF matching # {}
    THEN Some(businesses[CHOOSE i \in matching : \A j \in matching : i <= j])
    ELSE None

_find_business_by_ref(businesses, ref) ==
    FirstBusiness(businesses,
        { i \in DOMAIN businesses :
            businesses[i].external_id = ref \/ str(businesses[i].id) = ref })

_find_business_by_phone(businesses, to_number) ==
    LET target == _normalize_phone(to_number)
    IN  FirstBusiness(businesses,
            { i \in DOMAIN businesses :
                \/ _normalize_phone(businesses[i].phone) = target
                \/ _normalize_phone(businesses[i].transfer_phone) = target })

_find_business_by_agent_id(businesses, agent_id) ==
    FirstBusiness(businesses,
        { i \in DOMAIN businesses : strip(businesses[i].retell_agent_id) = agent_id })

_find_demo_business_FirstOnly(businesses) ==
    IF businesses # <<>> THEN Some(businesses[1]) ELSE None

_find_demo_business(businesses) ==
    LET by_id == { i \in DOMAIN businesses :
                     businesses[i].external_id = <<"d", "e", "m", "o">> }
        by_name == { i \in DOMAIN businesses :
                       businesses[i].name = "Demo Restaurant" }
    IN  IF by_id # {}
        THEN FirstBusiness(businesses, by_id)
        ELSE IF by_name # {}
             THEN FirstBusiness(businesses, by_name)
             ELSE IF businesses # <<>> THEN Some(businesses[1]) ELSE None

_is_dev_env_NoFallback(ENV) == FALSE

\* _is_dev_env: os.getenv("ENV", "dev").lower() is dev, development or local.
_is_dev_env(ENV) ==
    lower(IF ENV = None THEN <<"d", "e", "v">> ELSE ENV[1])
        \in { <<"d", "e", "v">>,
              <<"d", "e", "v", "e", "l", "o", "p", "m", "e", "n", "t">>,
              <<"l", "o", "c", "a", "l">> }

\* A returned business, with the lookup of resolve_business that returned it.
Found(business, via) == [kind |-> "business", business |-> business[1], via |-> via]

Raised(error) == [kind |-> error]

\* resolve_business, lines 21-68.
resolve_business(call, businesses, ENV) ==
    LET internal_customer_id == _pick_string(call.metadata.internal_customer_id)
        metadata_business_id == _pick_string(call.metadata.business_id)
        to_number == _pick_string(call.to_number)
        agent_id == _pick_string(call.agent_id)
        by_internal == _find_business_by_ref(businesses, internal_customer_id)
        by_business_id == _find_business_by_ref(businesses, metadata_business_id)
        by_number == _find_business_by_phone(businesses, to_number)
        by_agent == _find_business_by_agent_id(businesses, agent_id)
        any_context_present == \/ internal_customer_id # <<>>
                               \/ metadata_business_id # <<>>
                               \/ to_number # <<>>
                               \/ agent_id # <<>>
        demo == _find_demo_business(businesses)
    IN  IF internal_customer_id # <<>> /\ by_internal # None THEN Found(by_internal, "internal_customer_id")
        ELSE IF metadata_business_id # <<>> /\ by_business_id # None
        THEN Found(by_business_id, "business_id")
        ELSE IF to_number # <<>> /\ by_number # None THEN Found(by_number, "to_number")
        ELSE IF agent_id # <<>> /\ by_agent # None THEN Found(by_agent, "agent_id")
        ELSE IF any_context_present
        THEN IF _is_dev_env(ENV) /\ demo # None THEN Found(demo, "demo")
             ELSE Raised("LookupError")
        ELSE IF _is_dev_env(ENV) /\ demo # None THEN Found(demo, "demo")
             ELSE Raised("MissingTenantContextError")

\* Rows of table businesses: business 1 has neither external id nor transfer
\* phone, the external id of business 2 is the text of the primary key of
\* business 1, business 3 carries the external id demo.
BusinessRows ==
    { [id |-> 1, external_id |-> <<>>, name |-> "Harbor Grill",
       phone |-> <<"+", "1", "5">>, transfer_phone |-> <<>>, retell_agent_id |-> <<>>],
      [id |-> 2, external_id |-> <<"1">>, name |-> "Demo Restaurant",
       phone |-> <<"2", "-", "7">>, transfer_phone |-> <<"9", "9">>,
       retell_agent_id |-> <<"a", "7">>],
      [id |-> 3, external_id |-> <<"d", "e", "m", "o">>, name |-> "Corner Cafe",
       phone |-> <<"4", "4">>, transfer_phone |-> <<"4", "5">>, retell_agent_id |-> <<>>] }

\* session.query(Business).all(): the rows present, in the order the
\* database returns them.
BusinessTables ==
    {t \in ListsUpTo(BusinessRows, MaxBusinesses) : \A i, j \in DOMAIN t : i # j => t[i] # t[j]}

\* Call contexts: each signal is missing, blank (a tab and a space, a tab),
\* or a text that may or may not match a row; the reference demo stands
\* between a no-break space and a line feed.
CallContexts ==
    [metadata : [internal_customer_id : { <<>>, <<"\t", " ">>, <<"1">>,
                                          <<" ", "d", "e", "m", "o", "\n">>, <<"z">> },
                 business_id : { <<>>, <<"2">>, <<"z">> }],
     to_number : { <<>>, <<"\t">>, <<"+", "1", " ", "5">>, <<"n", "/", "a">>, <<"8">> },
     agent_id : { <<>>, <<"a", "7">>, <<"z">> }]

\* The ENV setting: unset, or set to Dev, prod or the empty text.
EnvSettings ==
    { None, Some(<<"D", "e", "v">>), Some(<<"p", "r", "o", "d">>), Some(<<>>) }

\* get_business_from_call returns a business or raises.
get_business_from_call(c) ==
    /\ c \in calls /\ c.op = "resolve_business"
    /\ calls' = calls \ {c}
    /\ last' = [op |-> c.op, path |-> "returned", call |-> c.call,
                businesses |-> c.businesses, ENV |-> c.ENV,
                response |-> resolve_business(c.call, c.businesses, c.ENV)]
    /\ UNCHANGED <<customers, bookings, idem, nextCustomerId, nextBookingId,
                   issued, calendar, returned>>

\* The resolver on its own: one call context is pending, over one table of
\* businesses and one ENV setting.
InitResolve ==
    /\ customers = {}
    /\ bookings = {}
    /\ idem = {}
    /\ nextCustomerId = 1
    /\ nextBookingId = 1
    /\ \E call \in CallContexts, businesses \in BusinessTables, ENV \in EnvSettings :
          calls = {[n |-> 1, op |-> "resolve_business", call |-> call,
                    businesses |-> businesses, ENV |-> ENV]}
    /\ issued = 1
    /\ calendar = {}
    /\ returned = {}
    /\ last = Idle

NextResolve == \E c \in calls : get_business_from_call(c)

SpecResolve == InitResolve /\ [][NextResolve]_vars

(* ------------------------- create_booking_tool ------------------------- *)

\* A business whose policies configure default_booking_duration_minutes = 60
\* and whose calendar is not connected.
PolicyBusinesses ==
    { [id |-> 1, max_total_guests_per_15min |-> CapPolicy, connected |-> FALSE,
       default_booking_duration_minutes |-> 60] }

\* The args object of a create_booking request before validation; names and
\* phones are texts (tuples of characters), the two phones have the same digits.
RawCreateArgs ==
    [customer_name : { <<>>, <<"A", "l">>, <<"B", "o">> },
     customer_phone : { <<"+", "1", "5">>, <<"+", "1", " ", "5">> },
     start_time : {1080},
     party_size : {0, 2},
     notes : {None}]

\* The call object of a request: call_id missing, empty or given.
ToolCalls == [call_id : {None, Some(<<>>), Some(<<"c", "1">>)}]

\* The messages of the errors CreateBookingArgs validation reports, in field order.
CreateBookingArgsErrors(raw_args) ==
    (IF Len(raw_args.customer_name) < 1
     THEN <<"String should have at least 1 character">> ELSE <<>>)
      \o (IF Len(raw_args.customer_phone) < 1
          THEN <<"String should have at least 1 character">> ELSE <<>>)
      \o (IF ~(raw_args.party_size > 0)
          THEN <<"Input should be greater than 0">> ELSE <<>>)

parse_create_booking_args_Unvalidated(raw_args) == <<>>

\* parse_create_booking_args: the validation errors, none when the args parse.
parse_create_booking_args(raw_args) == CreateBookingArgsErrors(raw_args)

\* compute_create_booking_idempotency_key, lines 33-35: `not call_id`.
MissingCallId(call) == call.call_id = None \/ call.call_id = Some(<<>>)

\* create_booking_tool, lines 447-450 and 479-486: the args fail validation,
\* or create_booking_with_idempotency raises ValueError for the missing call
\* id on its first line; INVALID_ARGS is returned.
CreateInvalid(business, call, raw_args) ==
    LET errors == parse_create_booking_args(raw_args)
    IN  /\ CanIssue
        /\ errors # <<>> \/ MissingCallId(call)
        /\ issued' = issued + 1
        /\ last' = [op |-> "create", path |-> "rejected", business_id |-> business.id,
                    response |->
                        [ok |-> FALSE, error_code |-> "INVALID_ARGS",
                         human_message |-> IF errors # <<>>
                                           THEN <<"Invalid args: ", errors[1]>>
                                           ELSE <<"Missing call.call_id">>]]
        /\ UNCHANGED <<customers, bookings, idem, nextCustomerId, nextBookingId,
                       calls, calendar, returned>>

\* create_booking_tool, lines 470-477: the args parse and the call id is
\* there; create_booking_with_idempotency replays or starts a booking.
CreateAccepted(business, call, raw_args) ==
    /\ parse_create_booking_args(raw_args) = <<>>
    /\ ~MissingCallId(call)
    /\ \/ CreateReplay(business, call.call_id[1], raw_args)
       \/ CreateBegin(business, call.call_id[1], raw_args)

\* The create and modify endpoints over a business with a duration policy.
NextTool ==
    \/ \E business \in PolicyBusinesses, call \in ToolCalls, raw_args \in RawCreateArgs :
          CreateInvalid(business, call, raw_args)
    \/ \E business \in PolicyBusinesses, call \in ToolCalls, raw_args \in RawCreateArgs :
          CreateAccepted(business, call, raw_args)
    \/ \E c \in calls : CreateFindCustomer(c)
    \/ \E c \in calls : CreateInsertCustomer(c)
    \/ \E c \in calls : CreateInsertBooking(c)
    \/ \E c \in calls : CreateCommit(c)
    \/ \E c \in calls : CreateConflict(c)
    \/ \E business \in PolicyBusinesses, args \in ModifyArgs : ModifyReject(business, args)
    \/ \E business \in PolicyBusinesses, args \in ModifyArgs : ModifyBegin(business, args)
    \/ \E c \in calls : ModifyNoAvailability(c)
    \/ \E c \in calls : ModifyAvailable(c)
    \/ \E c \in calls : ModifyCommit(c)
    \/ \E c \in calls : ModifyReread(c)

SpecTool == Init /\ [][NextTool]_vars

(* ------------------------ moves on a seated floor ---------------------- *)

\* A committed booking row that no calendar event is attached to.
SeatedRow(id, business_id, start_time, party_size, status) ==
    [id |-> id, business_id |-> business_id, customer_id |-> business_id,
     start_time |-> start_time, end_time |-> start_time + BOOKING_DURATION_MINUTES,
     party_size |-> party_size, status |-> status, notes |-> None,
     source |-> "retell", external_event_id |-> None, external_event_provider |-> None]

\* Rows the bookings table may hold when modify requests arrive: of business
\* 1 a party of 2 at 16:00, a party of 2 at 20:30, a party of 1 at 18:45, a
\* party of 2 at 19:30 and a cancelled party of 3 at 18:45; of business 2 a
\* party of 3 at 18:45.
SeatedBookings ==
    { SeatedRow(1, 1, 960, 2, "confirmed"),
      SeatedRow(2, 1, 1230, 2, "confirmed"),
      SeatedRow(3, 1, 1125, 1, "confirmed"),
      SeatedRow(4, 1, 1170, 2, "confirmed"),
      SeatedRow(5, 1, 1125, 3, "cancelled"),
      SeatedRow(6, 2, 1125, 3, "confirmed") }

\* The tables the requests arrive on: rows 2 and 4 are never seated together
\* (they would put 4 guests into the buckets from 20:30 to 21:00).
SeatedTables ==
    {rows \in SUBSET SeatedBookings : ~(\E a \in rows, b \in rows : a.id = 2 /\ b.id = 4)}

\* Modify requests on the seated floor: a move to 18:45, a party of 2, or both.
MoveArgs ==
    {a \in [booking_id : 1..4,
            start_time : {None, Some(1125)},
            party_size : {None, Some(2)},
            notes : {None}] :
        a.start_time # None \/ a.party_size # None}

InitMove ==
    /\ customers = {}
    /\ bookings \in SeatedTables
    /\ idem = {}
    /\ nextCustomerId = 3
    /\ nextBookingId = 7
    /\ calls = {}
    /\ issued = 0
    /\ calendar = {}
    /\ returned = {}
    /\ last = Idle

\* Modify requests served by both workers.
NextMove ==
    \/ \E business \in Businesses, args \in MoveArgs : ModifyReject(business, args)
    \/ \E business \in Businesses, args \in MoveArgs : ModifyBegin(business, args)
    \/ \E c \in calls : ModifyNoAvailability(c)
    \/ \E c \in calls : ModifyAvailable(c)
    \/ \E c \in calls : ModifyCommit(c)
    \/ \E c \in calls : ModifyReread(c)

SpecMove == InitMove /\ [][NextMove]_vars

\* Modify requests served one after the other: a request is taken up only
\* when no other call is in flight.
NextMoveSerial ==
    \/ \E business \in Businesses, args \in MoveArgs :
          calls = {} /\ ModifyReject(business, args)
    \/ \E business \in Businesses, args \in MoveArgs :
          calls = {} /\ ModifyBegin(business, args)
    \/ \E c \in calls : ModifyNoAvailability(c)
    \/ \E c \in calls : ModifyAvailable(c)
    \/ \E c \in calls : ModifyCommit(c)
    \/ \E c \in calls : ModifyReread(c)

SpecMoveSerial == InitMove /\ [][NextMoveSerial]_vars

(* -------------------- booking an offered start time ------------------- *)

\* Businesses whose policies set default_booking_duration_minutes to 60, 90
\* or 120 minutes; the calendar is not connected.
DurationBusinesses ==
    { [id |-> 1, max_total_guests_per_15min |-> CapPolicy, connected |-> FALSE,
       default_booking_duration_minutes |-> d] : d \in {60, 90, 120} }

\* Rows the table may hold when the caller asks for a time: of business 1 a
\* party of 2 at 19:00, a party of 1 at 18:00 and a cancelled party of 2 at
\* 18:00; of business 2 a party of 3 at 18:00.
ReservedBookings ==
    { SeatedRow(1, 1, 1140, 2, "confirmed"),
      SeatedRow(2, 1, 1080, 1, "confirmed"),
      SeatedRow(3, 1, 1080, 2, "cancelled"),
      SeatedRow(4, 2, 1080, 3, "confirmed") }

\* check_availability requests for 18:00 sharp, exact or 15 minutes either
\* way, for a party within the cap.
OfferRequests ==
    [desired_start_utc : {1080}, flexibility_minutes : {0, 15}, party_size : {1, 2}]

\* The value of a decimal digit.
DigitValue(ch) == (CHOOSE i \in DOMAIN DigitChars : DigitChars[i] = ch) - 1

\* datetime.fromisoformat on a start time of the availability response: the
\* hour and minute fields of YYYY-MM-DDTHH:MM:SS+00:00 on the modelled day.
fromisoformat(text) ==
    (DigitValue(text[12]) * 10 + DigitValue(text[13])) * 60
      + DigitValue(text[15]) * 10 + DigitValue(text[16])

\* The create requests a caller sends after the availability answer: one of
\* the offered start times, for the party size that was asked about.
OfferedCreateArgs(business) ==
    IF last.op = "check_availability" /\ last.business = business
    THEN LET offered == last.response.data.available_start_times
         IN  [customer_name : {"Alice"}, customer_phone : Phones,
              start_time : {fromisoformat(offered[i]) : i \in DOMAIN offered},
              party_size : {last.args.party_size}, notes : {None}]
    ELSE {}

InitOffer ==
    /\ customers = {}
    /\ bookings \in SUBSET ReservedBookings
    /\ idem = {}
    /\ nextCustomerId = 3
    /\ nextBookingId = 5
    /\ \E business \in DurationBusinesses, args \in OfferRequests :
          calls = {[n |-> 1, op |-> "check_availability", business |-> business,
                    args |-> args]}
    /\ issued = 1
    /\ calendar = {}
    /\ returned = {}
    /\ last = Idle

\* The availability request is answered, then the caller books an offered
\* start; no other call is in flight.
NextOffer ==
    \/ \E c \in calls : check_availability_tool(c)
    \/ \E business \in DurationBusinesses, call_id \in CallIds :
          \E args \in OfferedCreateArgs(business) :
             calls = {} /\ CreateBegin(business, call_id, args)
    \/ \E c \in calls : CreateFindCustomer(c)
    \/ \E c \in calls : CreateInsertCustomer(c)
    \/ \E c \in calls : CreateInsertBooking(c)
    \/ \E c \in calls : CreateCommit(c)

SpecOffer == InitOffer /\ [][NextOffer]_vars

(* ------------------------- one candidate start ------------------------- *)

\* Booking rows handed to is_slot_available for the candidate 18:00: one
\* ending at 18:00 sharp, ones starting at 18:20, 18:30 and 19:30 (the ends of
\* a 20, 30 and 90 minute stay from 18:00), and one from 18:00 to 19:30 that
\* is confirmed or cancelled.
SlotBookings ==
    [start_time : {990}, end_time : {1080}, party_size : {2}, status : {"confirmed"}]
      \cup [start_time : {1100, 1110, 1170}, end_time : {1260}, party_size : {2},
            status : {"confirmed"}]
      \cup [start_time : {1080}, end_time : {1170}, party_size : {2},
            status : {"confirmed", "cancelled"}]

\* Calls of is_slot_available: a party within the cap and one that alone
\* exceeds it, durations of 20, 30 and 90 minutes.
SlotArgs ==
    [candidate_start : {1080}, party_size : {2, CapPolicy + 1},
     booking_duration_minutes : {20, 30, 90},
     max_total_guests_per_15_min : {CapPolicy},
     existing_bookings : ListsUpTo(SlotBookings, MaxExisting)]

\* A call of is_slot_available returns.
IsSlotAvailable(c) ==
    /\ c \in calls /\ c.op = "is_slot_available"
    /\ calls' = calls \ {c}
    /\ last' = [op |-> c.op, path |-> "returned", args |-> c.args,
                response |-> is_slot_available(c.args.candidate_start, c.args.party_size,
                                               c.args.booking_duration_minutes,
                                               c.args.max_total_guests_per_15_min,
                                               c.args.existing_bookings)]
    /\ UNCHANGED <<customers, bookings, idem, nextCustomerId, nextBookingId,
                   issued, calendar, returned>>

InitSlot ==
    /\ customers = {}
    /\ bookings = {}
    /\ idem = {}
    /\ nextCustomerId = 1
    /\ nextBookingId = 1
    /\ \E a \in SlotArgs : calls = {[n |-> 1, op |-> "is_slot_available", args |-> a]}
    /\ issued = 1
    /\ calendar = {}
    /\ returned = {}
    /\ last = Idle

NextSlot == \E c \in calls : IsSlotAvailable(c)

SpecSlot == InitSlot /\ [][NextSlot]_vars

(* --------------------------- repeated creates -------------------------- *)

\* Call ids and phones of the repeated requests.  The second call id ends in
\* "|" and the start time written out, the second phone begins with the start
\* time written out and "|": the first call id with the second phone and the
\* second call id with the first phone are joined into the same key text.
RepeatCallIds == { <<"c", "1">>, <<"c", "1", "|">> \o isoformat(1080) }

RepeatPhones == { <<"+", "1", "5">>, isoformat(1080) \o <<"|", "+", "1", "5">> }

\* Create requests for 18:00: Alice for 2 without notes, or Bob for 3 with a
\* note, under either phone.
RepeatArgs ==
    [customer_name : {"Alice"}, customer_phone : RepeatPhones, start_time : {1080},
     party_size : {2}, notes : {None}]
      \cup [customer_name : {"Bob"}, customer_phone : RepeatPhones, start_time : {1080},
            party_size : {3}, notes : {Some("Window seat")}]

\* The deliveries: both requests under the first call id and the first phone
\* (one key), Bob's request under the first call id and the second phone and
\* Alice's under the second call id and the first phone (one key as well).
RepeatDelivered(call_id, args) ==
    \/ call_id = <<"c", "1">> /\ args.customer_phone = <<"+", "1", "5">>
    \/ /\ call_id = <<"c", "1">> /\ args.customer_phone # <<"+", "1", "5">>
       /\ args.customer_name = "Bob"
    \/ /\ call_id # <<"c", "1">> /\ args.customer_phone = <<"+", "1", "5">>
       /\ args.customer_name = "Alice"

\* The business with a connected calendar.
RepeatBusinesses == {business \in Businesses : business.connected}

\* Deliveries of such requests, served by both workers, with every outcome of
\* the calendar call.
NextRepeat ==
    \/ \E business \in RepeatBusinesses, call_id \in RepeatCallIds, args \in RepeatArgs :
          RepeatDelivered(call_id, args) /\ CreateReplay(business, call_id, args)
    \/ \E business \in RepeatBusinesses, call_id \in RepeatCallIds, args \in RepeatArgs :
          RepeatDelivered(call_id, args) /\ CreateBegin(business, call_id, args)
    \/ \E c \in calls : CreateFindCustomer(c)
    \/ \E c \in calls : CreateInsertCustomer(c)
    \/ \E c \in calls : CreateInsertBooking(c)
    \/ \E c \in calls : CreateCommit(c)
    \/ \E c \in calls : CreateConflict(c)
    \/ \E c \in calls, event_id \in {Some(e) : e \in EventIds} \cup {None} :
          CreateCalendarOk(c, event_id)
    \/ \E c \in calls : CreateCalendarFail(c)

SpecRepeat == Init /\ [][NextRepeat]_vars

(* ------------------ modify and cancel on stored bookings --------------- *)

\* The customer of each business.
ManagedCustomers ==
    { [id |-> 1, business_id |-> 1, name |-> "Alice", phone |-> <<"+", "1", "5">>],
      [id |-> 2, business_id |-> 2, name |-> "Bob", phone |-> <<"+", "1", "5">>] }

\* Booking 1 of business 1 at 18:00, synced to the calendar, booking 2 of
\* business 2 at 18:45 and booking 3 of business 1 at 18:45, as create stores
\* them, with the status they have when the requests arrive.
ManagedRow(id, status) ==
    [id |-> id, business_id |-> IF id = 2 THEN 2 ELSE 1,
     customer_id |-> IF id = 2 THEN 2 ELSE 1,
     start_time |-> IF id = 1 THEN 1080 ELSE 1125,
     end_time |-> (IF id = 1 THEN 1080 ELSE 1125) + BOOKING_DURATION_MINUTES,
     party_size |-> 2, status |-> status, notes |-> None, source |-> "retell",
     external_event_id |-> IF id = 1 THEN Some("evt_123") ELSE None,
     external_event_provider |-> IF id = 1 THEN Some("google") ELSE None]

\* The idempotency record the create of booking id has stored.
ManagedRecord(id) ==
    LET booking == [ManagedRow(id, "confirmed") EXCEPT !.external_event_id = None,
                                                       !.external_event_provider = None]
        customer == CHOOSE c \in ManagedCustomers : c.id = booking.customer_id
    IN  [key |-> compute_create_booking_idempotency_key(
                    <<"c">> \o str(id), [start_time |-> booking.start_time,
                                   customer_phone |-> customer.phone]),
         response_json |-> CreateResponse(booking, customer)]

InitManage ==
    /\ customers = ManagedCustomers
    /\ \E s1 \in {"confirmed", "cancelled"}, s2 \in {"confirmed", "cancelled"} :
          bookings = {ManagedRow(1, s1), ManagedRow(2, s2), ManagedRow(3, "confirmed")}
    /\ idem = {ManagedRecord(id) : id \in 1..3}
    /\ nextCustomerId = 3
    /\ nextBookingId = 4
    /\ calls = {}
    /\ issued = 0
    /\ calendar = {[op |-> "create_event", booking_id |-> 1]}
    /\ returned = {<<ManagedRecord(id).key, ManagedRecord(id).response_json>> : id \in 1..3}
    /\ last = Idle

\* Modify and cancel requests served by both workers, with every outcome of
\* the calendar call.
NextManage ==
    \/ \E business \in Businesses, args \in ModifyArgs : ModifyReject(business, args)
    \/ \E business \in Businesses, args \in ModifyArgs : ModifyBegin(business, args)
    \/ \E c \in calls : ModifyNoAvailability(c)
    \/ \E c \in calls : ModifyAvailable(c)
    \/ \E c \in calls : ModifyCommit(c)
    \/ \E c \in calls : ModifyReread(c)
    \/ \E c \in calls : ModifyUpdateEvent(c)
    \/ \E c \in calls, ok \in BOOLEAN : ModifyCalendar(c, ok)
    \/ \E business \in Businesses, args \in CancelArgs : CancelNoop(business, args)
    \/ \E business \in Businesses, args \in CancelArgs : CancelBegin(business, args)
    \/ \E c \in calls : CancelCommit(c)
    \/ \E c \in calls : CancelReread(c)
    \/ \E c \in calls, ok \in BOOLEAN : CancelCalendar(c, ok)

SpecManage == InitManage /\ [][NextManage]_vars

(* -------------------- one booking and its calendar event --------------- *)

\* Requests of one customer of the business with the connected calendar: the
\* creates for 18:00 and 18:45, and for the first booking a modify of the
\* start time or of the notes and the cancel.
SyncCreateArgs == {a \in CreateArgs : a.customer_name = "Alice"}

SyncModifyArgs ==
    {a \in ModifyArgs : a.booking_id = 1 /\ a.party_size = None
                          /\ (a.start_time = None \/ a.notes = None)}

SyncCancelArgs == {a \in CancelArgs : a.booking_id = 1}

NextSync ==
    \/ \E business \in RepeatBusinesses, call_id \in CallIds, args \in SyncCreateArgs :
          CreateReplay(business, call_id, args)
    \/ \E business \in RepeatBusinesses, call_id \in CallIds, args \in SyncCreateArgs :
          CreateBegin(business, call_id, args)
    \/ \E c \in calls : CreateFindCustomer(c)
    \/ \E c \in calls : CreateInsertCustomer(c)
    \/ \E c \in calls : CreateInsertBooking(c)
    \/ \E c \in calls : CreateCommit(c)
    \/ \E c \in calls : CreateConflict(c)
    \/ \E c \in calls, event_id \in {Some(e) : e \in EventIds} \cup {None} :
          CreateCalendarOk(c, event_id)
    \/ \E c \in calls : CreateCalendarFail(c)
    \/ \E business \in RepeatBusinesses, args \in SyncModifyArgs :
          ModifyReject(business, args)
    \/ \E business \in RepeatBusinesses, args \in SyncModifyArgs :
          ModifyBegin(business, args)
    \/ \E c \in calls : ModifyNoAvailability(c)
    \/ \E c \in calls : ModifyAvailable(c)
    \/ \E c \in calls : ModifyCommit(c)
    \/ \E c \in calls : ModifyReread(c)
    \/ \E c \in calls : ModifyUpdateEvent(c)
    \/ \E c \in calls, ok \in BOOLEAN : ModifyCalendar(c, ok)
    \/ \E business \in RepeatBusinesses, args \in SyncCancelArgs :
          CancelNoop(business, args)
    \/ \E business \in RepeatBusinesses, args \in SyncCancelArgs :
          CancelBegin(business, args)
    \/ \E c \in calls : CancelCommit(c)
    \/ \E c \in calls : CancelReread(c)
    \/ \E c \in calls, ok \in BOOLEAN : CancelCalendar(c, ok)

SpecSync == Init /\ [][NextSync]_vars

(* ------------------------------ claims --------------------------------- *)

\* The idempotency key of a create request, as the specification words it:
\* the call id, the requested start as text, and the customer phone.
RequestKey(call_id, args) ==
    call_id \o <<"|">> \o isoformat(args.start_time) \o <<"|">> \o args.customer_phone

StoredUnder(key) == {r \in idem : r.key = key}

\* This step issues the create request (business, call_id, args).
CreateIssued(business, call_id, args) ==
    \/ CreateReplay(business, call_id, args)
    \/ CreateBegin(business, call_id, args)

\* C1: a create call issued after an earlier create call with the same
\* (call id, start time, customer phone) has returned gets the payload that
\* earlier call returned, and the number of booking rows does not change.
C1_ReplayEqualsEarlierReturn ==
    [][\A business \in Businesses, call_id \in CallIds, args \in CreateArgs :
          (/\ CreateIssued(business, call_id, args)
           /\ \E e \in returned : e[1] = RequestKey(call_id, args))
          => /\ calls' = calls
             /\ \A e \in returned :
                   e[1] = RequestKey(call_id, args) => last'.response = e[2]
             /\ Cardinality(bookings') = Cardinality(bookings)]_vars

\* C2: in every committed state there is at most one idempotency record per
\* key and exactly one booking row behind each record, so at most one booking
\* row per key.
C2_OneRowPerKey ==
    /\ \A r1 \in idem, r2 \in idem : r1.key = r2.key => r1 = r2
    /\ \A b \in bookings :
          Cardinality({r \in idem : r.response_json.data.booking_id = b.id}) = 1
    /\ \A r \in idem : \E b \in bookings : b.id = r.response_json.data.booking_id

\* Two create calls raced on one key: one committed, the other hit the conflict.
C2_Witness ==
    /\ last.op = "create" /\ last.path = "conflict"
    /\ Cardinality(idem) = 1 /\ Cardinality(bookings) = 1

\* C3: all payloads create has ever returned for one idempotency key are
\* identical.
C3_ReturnedPayloadsAgree ==
    \A e1 \in returned, e2 \in returned : e1[1] = e2[1] => e1[2] = e2[2]

\* C4: a create call whose commit hits the unique-key conflict leaves no
\* customer or booking row of its own and returns the response stored by the
\* call that committed first, not an error.
C4_LoserReplaysWinner ==
    [][\A c \in calls :
          (/\ c.op = "create" /\ c.pc = "commit" /\ c \notin calls'
           /\ StoredUnder(c.key) # {})
          => /\ \E r \in StoredUnder(c.key) : last'.response = r.response_json
             /\ last'.response.ok = TRUE
             /\ last'.response.data.booking_id # c.booking.id
             /\ customers' = customers /\ bookings' = bookings /\ idem' = idem
             /\ c.booking \notin bookings'
             /\ c.new_customer => c.customer \notin customers']_vars

\* The losing call has returned the winner's booking; its own booking id was
\* handed out and is in no committed row.
C4_Witness ==
    /\ last.op = "create" /\ last.path = "conflict"
    /\ last.response.ok = TRUE
    /\ \E b \in bookings : b.id = last.response.data.booking_id
    /\ nextBookingId = 3 /\ Cardinality(bookings) = 1

\* C5: when a stored response exists under the request's key, create returns
\* it and changes nothing: no customer row is added or renamed, no booking or
\* idempotency record is added, no calendar call is made.
C5_ReplayChangesNothing ==
    [][\A business \in Businesses, call_id \in CallIds, args \in CreateArgs :
          (/\ CreateIssued(business, call_id, args)
           /\ StoredUnder(RequestKey(call_id, args)) # {})
          => /\ calls' = calls
             /\ customers' = customers /\ bookings' = bookings /\ idem' = idem
             /\ calendar' = calendar
             /\ \E r \in StoredUnder(RequestKey(call_id, args)) :
                   last'.response = r.response_json]_vars

\* A replay whose request carried another customer name than the stored one:
\* the stored payload came back and the customer row kept its name.
C5_Witness ==
    /\ last.op = "create" /\ last.path = "replay"
    /\ last.args.customer_name # last.response.data.customer_name
    /\ \E c \in customers : /\ c.id = last.response.data.customer_id
                            /\ c.name = last.response.data.customer_name

\* C6 as stated: a committed idempotency record's payload never changes.
C6_StoredPayloadNeverChanges ==
    [][\A r \in idem : r \in idem']_vars

\* C6 as amended: a committed idempotency record stays, and its payload stays
\* as it is except in the step in which the call that created it sees its
\* calendar sync fail: that step adds data.warning = "Calendar sync failed"
\* to the payload and changes no other field.
C6_StoredPayloadOnlyGainsWarning ==
    [][\A r \in idem :
          \/ r \in idem'
          \/ /\ \E c \in calls : /\ c.op = "create" /\ c.pc = "calendar"
                                 /\ c.key = r.key /\ c \notin calls'
             /\ "warning" \notin DOMAIN r.response_json.data
             /\ \E r2 \in idem' :
                   /\ r2.key = r.key
                   /\ r2.response_json.ok = r.response_json.ok
                   /\ DOMAIN r2.response_json.data =
                         DOMAIN r.response_json.data \cup {"warning"}
                   /\ r2.response_json.data.warning = "Calendar sync failed"
                   /\ \A f \in DOMAIN r.response_json.data :
                         r2.response_json.data[f] = r.response_json.data[f]]_vars

\* Two records are stored; the calendar sync of the call behind one of them
\* failed and that record carries the warning, the other does not.
C6_Witness ==
    /\ \E r \in idem : "warning" \in DOMAIN r.response_json.data
    /\ \E r \in idem : "warning" \notin DOMAIN r.response_json.data

\* Sum of the party sizes of a set of booking rows.
RECURSIVE Guests(_)
Guests(rows) ==
    IF rows = {} THEN 0
    ELSE LET r == CHOOSE x \in rows : TRUE IN r.party_size + Guests(rows \ {r})

\* The 15-minute buckets of the clock that a booking of the model can touch.
ClockBuckets == {t \in 1080..1215 : t % 15 = 0}

ConfirmedIn(business_id, bucket, bucket_end, rows) ==
    {b \in rows : /\ b.business_id = business_id
                  /\ b.status # "cancelled"
                  /\ b.start_time < bucket_end /\ b.end_time > bucket}

\* C7: in every committed state, for every business and every 15-minute
\* bucket, the confirmed bookings of the business overlapping the bucket sum
\* to at most the business's max_total_guests_per_15min.
C7_NoBucketOverCap ==
    \A business \in Businesses, bucket \in ClockBuckets :
        Guests(ConfirmedIn(business.id, bucket, bucket + 15, bookings))
            <= business.max_total_guests_per_15min

\* Guests of the non-cancelled entries of a list that overlap [bucket, bucket_end).
RECURSIVE ListGuests(_, _, _)
ListGuests(list, bucket, bucket_end) ==
    IF list = <<>> THEN 0
    ELSE LET b == Head(list)
         IN  (IF b.status # "cancelled" /\ b.start_time < bucket_end /\ b.end_time > bucket
              THEN b.party_size ELSE 0)
               + ListGuests(Tail(list), bucket, bucket_end)

\* The 15-minute buckets of [start, start + duration).
BucketsOf(start, duration) ==
    {start + 15 * k : k \in 0..((duration + 14) \div 15 - 1)}

\* C8: for every start time find_best_available_start_times returns and every
\* 15-minute bucket of [start, start + duration), the requested party size
\* plus the non-cancelled existing bookings overlapping the bucket is at most
\* the cap, whatever the existing-bookings list is.
C8_ReturnedStartsFitCap ==
    last.op = "find_best_available_start_times" =>
        \A i \in 1..Len(last.response) :
            \A bucket \in BucketsOf(last.response[i], last.args.booking_duration_minutes) :
                last.args.party_size
                  + ListGuests(last.args.existing_bookings, bucket, bucket + 15)
                  <= last.args.max_total_guests_per_15_min

\* The feasibility test as the specification states it: every 15-minute
\* bucket of [start, start + duration) holds, with the requested party and the
\* other confirmed bookings of the business overlapping it, at most the cap.
Feasible(business, moved_id, start, party_size) ==
    \A bucket \in BucketsOf(start, BOOKING_DURATION_MINUTES) :
        party_size
          + Guests(ConfirmedIn(business.id, bucket, bucket + 15,
                               {b \in bookings : b.id # moved_id}))
          <= business.max_total_guests_per_15min

\* This step issues the modify request (business, args).
ModifyIssued(business, args) ==
    \/ ModifyReject(business, args)
    \/ ModifyBegin(business, args)

\* This step issues the cancel request (business, args).
CancelIssued(business, args) ==
    \/ CancelNoop(business, args)
    \/ CancelBegin(business, args)

\* C9: a modify whose new start time fails the feasibility test, taken when
\* the request reads the bookings of the window, returns NO_AVAILABILITY and
\* leaves the booking unchanged, also when the request carries a new party
\* size or new notes.
C9_InfeasibleMoveRejected ==
    [][\A c \in calls :
          (/\ c.op = "modify" /\ c.pc = "fetch" /\ c \notin calls'
           /\ \E b \in bookings :
                 /\ b.id = c.booking_id /\ b.status = "confirmed"
                 /\ ~Feasible(c.business, b.id, c.args.start_time[1], c.new_party_size))
          => /\ \A d \in calls' : d.n # c.n
             /\ bookings' = bookings
             /\ last'.response.ok = FALSE
             /\ last'.response.error_code = "NO_AVAILABILITY"]_vars

\* C10: modify and cancel naming a booking of another business than the
\* resolved one return BOOKING_NOT_FOUND, the very response a booking id that
\* does not exist gets, and leave the booking unchanged.
C10_CrossTenantNotFound ==
    [][/\ \A business \in Businesses, args \in ModifyArgs :
             (/\ \A b \in bookings : b.id = args.booking_id => b.business_id # business.id
              /\ ModifyIssued(business, args))
             => /\ calls' = calls /\ bookings' = bookings
                /\ last'.response =
                      [ok |-> FALSE, error_code |-> "BOOKING_NOT_FOUND",
                       human_message |-> "Booking not found for this business."]
       /\ \A business \in Businesses, args \in CancelArgs :
             (/\ \A b \in bookings : b.id = args.booking_id => b.business_id # business.id
              /\ CancelIssued(business, args))
             => /\ calls' = calls /\ bookings' = bookings
                /\ last'.response =
                      [ok |-> FALSE, error_code |-> "BOOKING_NOT_FOUND",
                       human_message |-> "Booking not found for this business."]]_vars

\* A modify named a confirmed booking that exists, under the other business,
\* and was answered BOOKING_NOT_FOUND.
C10_Witness ==
    /\ last.op = "modify"
    /\ last.response.ok = FALSE
    /\ last.response.error_code = "BOOKING_NOT_FOUND"
    /\ \E b \in bookings : /\ b.id = last.booking_id
                           /\ b.business_id # last.business_id
                           /\ b.status = "confirmed"

\* The columns of a booking that a modify request can change.
Mutable(b) ==
    [start_time |-> b.start_time, end_time |-> b.end_time,
     party_size |-> b.party_size, notes |-> b.notes]

\* C11: a modify naming a cancelled booking of the resolved business returns
\* BOOKING_ALREADY_CANCELLED and changes nothing, and in every step a booking
\* that is cancelled keeps its start time, end time, party size and notes.
C11_CancelledBookingFrozen ==
    [][/\ \A business \in Businesses, args \in ModifyArgs :
             (/\ ModifyIssued(business, args)
              /\ \E b \in bookings : /\ b.id = args.booking_id
                                     /\ b.business_id = business.id
                                     /\ b.status = "cancelled")
             => /\ calls' = calls /\ bookings' = bookings
                /\ last'.response.ok = FALSE
                /\ last'.response.error_code = "BOOKING_ALREADY_CANCELLED"
       /\ \A b \in bookings :
             b.status = "cancelled"
             => \E b2 \in bookings' : b2.id = b.id /\ Mutable(b2) = Mutable(b)]_vars

\* C12: a cancel naming an already-cancelled booking of the resolved business
\* returns ok=true with status cancelled and changes no stored state, and
\* every cancel that found its booking returns ok=true with status cancelled.
C12_CancelIsIdempotent ==
    [][/\ \A business \in Businesses, args \in CancelArgs :
             (/\ CancelIssued(business, args)
              /\ \E b \in bookings : /\ b.id = args.booking_id
                                     /\ b.business_id = business.id
                                     /\ b.status = "cancelled")
             => /\ calls' = calls
                /\ customers' = customers /\ bookings' = bookings /\ idem' = idem
                /\ calendar' = calendar
                /\ last'.response =
                      [ok |-> TRUE,
                       data |-> [booking_id |-> args.booking_id, status |-> "cancelled"]]
       /\ (last' # last /\ last'.op = "cancel" /\ last'.path # "rejected")
             => /\ last'.response.ok = TRUE
                /\ last'.response.data.status = "cancelled"
                /\ last'.response.data.booking_id = last'.booking_id]_vars

\* A cancel was answered for a booking that was cancelled before the call.
C12_Witness ==
    /\ last.op = "cancel" /\ last.path = "already"
    /\ last.response.ok = TRUE
    /\ \E b \in bookings : b.id = last.booking_id /\ b.status = "cancelled"

\* C13: a booking whose status is cancelled stays cancelled, every booking
\* row stays in the table, and the only status change of a step is from
\* confirmed to cancelled.
C13_CancelledIsTerminal ==
    [][\A b \in bookings :
          \E b2 \in bookings' :
             /\ b2.id = b.id
             /\ \/ b2.status = b.status
                \/ b.status = "confirmed" /\ b2.status = "cancelled"]_vars

\* A modify that had read the booking while it was confirmed committed after
\* the booking was cancelled: the row carries the new notes and is cancelled.
C13_Witness ==
    /\ last.op = "modify" /\ last.path = "modified"
    /\ \E b \in bookings : /\ b.id = last.booking_id
                           /\ b.status = "cancelled"
                           /\ b.notes # None

\* The response is ok=true and carries data.warning = "Calendar sync failed".
OkWithWarning(response) ==
    /\ response.ok = TRUE
    /\ "warning" \in DOMAIN response.data
    /\ response.data.warning = "Calendar sync failed"

\* C14: in the step in which the calendar call of a create, modify or cancel
\* fails, no customer or booking row changes, the booking is in the table
\* (with the values the modify committed, cancelled for a cancel), the
\* idempotency record of a create stays, and the response is ok=true with
\* data.warning = "Calendar sync failed".
C14_CalendarFailureKeepsMutation ==
    [][\A c \in calls :
          /\ CreateCalendarFail(c)
                => /\ bookings' = bookings /\ customers' = customers
                   /\ \E b \in bookings' : b.id = c.booking.id
                   /\ \E r \in idem' : r.key = c.key
                   /\ OkWithWarning(last'.response)
                   /\ last'.response.data.booking_id = c.booking.id
                   /\ last'.response.data.status = "confirmed"
          /\ ModifyCalendar(c, FALSE)
                => /\ bookings' = bookings /\ customers' = customers /\ idem' = idem
                   /\ \E b \in bookings' :
                         /\ b.id = c.booking_id
                         /\ \A f \in DOMAIN c.changes : b[f] = c.changes[f]
                   /\ OkWithWarning(last'.response)
                   /\ last'.response.data.booking_id = c.booking_id
          /\ CancelCalendar(c, FALSE)
                => /\ bookings' = bookings /\ customers' = customers /\ idem' = idem
                   /\ \E b \in bookings' : b.id = c.booking_id /\ b.status = "cancelled"
                   /\ OkWithWarning(last'.response)
                   /\ last'.response.data.booking_id = c.booking_id
                   /\ last'.response.data.status = "cancelled"]_vars

\* A cancel whose calendar delete failed has returned: the booking is
\* cancelled and the response carries the warning.
C14_Witness ==
    /\ last.op = "cancel" /\ last.path = "cancelled"
    /\ "warning" \in DOMAIN last.response.data
    /\ \E b \in bookings : b.id = last.booking_id /\ b.status = "cancelled"
    /\ \E e \in calendar : e.op = "delete_event" /\ e.booking_id = last.booking_id

\* The mutation of call c is in the committed tables.
Committed(c) ==
    IF c.op = "create"
    THEN /\ c.booking # None
         /\ \E b \in bookings : b.id = c.booking.id
         /\ \E r \in idem : r.key = c.key
    ELSE \E b \in bookings :
            /\ b.id = c.booking_id
            /\ \A f \in DOMAIN c.changes : b[f] = c.changes[f]

\* The calendar operation a call of this kind performs.
CalendarOp(c) ==
    IF c.op = "create" THEN "create_event"
    ELSE IF c.op = "modify" THEN "update_event" ELSE "delete_event"

\* C15: a step that performs a calendar operation is taken by a call whose
\* mutation is already committed; a step that issues a request, replays a
\* stored response or rejects a request performs none; and no create_event
\* exists for a booking whose create has not committed yet.
C15_CalendarOnlyAfterCommit ==
    [][/\ calendar' # calendar
             => \E c \in calls :
                   /\ c \notin calls'
                   /\ Committed(c)
                   /\ calendar' = calendar \cup
                         {[op |-> CalendarOp(c),
                           booking_id |-> IF c.op = "create" THEN c.booking.id
                                          ELSE c.booking_id]}
                   /\ issued' = issued
       /\ (last' # last /\ (last'.response.ok = FALSE \/ last'.path = "replay"
                              \/ last'.path = "conflict" \/ last'.path = "already"))
             => calendar' = calendar
       /\ \A c \in calls :
             ~Committed(c)
             => \A e \in calendar :
                   ~(/\ c.op = "create" /\ c.booking # None
                     /\ e.op = "create_event" /\ e.booking_id = c.booking.id)]_vars

\* A modify has committed its new start time and then updated the calendar event.
C15_Witness ==
    /\ last.op = "modify" /\ last.path = "modified"
    /\ \E e \in calendar : e.op = "update_event" /\ e.booking_id = last.booking_id
    /\ \E b \in bookings : b.id = last.booking_id /\ b.start_time = 1125

\* C16: in the step in which the calendar call of a create returns an event
\* id, the booking gets external_event_provider "google" and that event id,
\* the response carries no warning, and the response stored under the
\* request's key equals the response returned.
C16_SyncSuccessStoresEventId ==
    [][\A c \in calls, e \in EventIds :
          CreateCalendarOk(c, <<e>>)
          => /\ \E b \in bookings' :
                   /\ b.id = c.booking.id
                   /\ b.external_event_provider = <<"google">>
                   /\ b.external_event_id = <<e>>
             /\ last'.response.ok = TRUE
             /\ last'.response.data.booking_id = c.booking.id
             /\ "warning" \notin DOMAIN last'.response.data
             /\ \E r \in idem' : r.key = c.key
             /\ \A r \in idem' : r.key = c.key => r.response_json = last'.response]_vars

\* A create has returned after a successful calendar sync: its booking
\* carries the event id and the stored response is the returned one.
C16_Witness ==
    /\ last.op = "create" /\ last.path = "created"
    /\ \E b \in bookings : /\ b.id = last.response.data.booking_id
                           /\ b.external_event_provider = <<"google">>
                           /\ b.external_event_id = <<"evt_123">>
    /\ \E r \in idem : r.key = last.key /\ r.response_json = last.response

\* Distance in minutes between an instant and the desired start of the query.
Distance(t, desired_start) == IF t < desired_start THEN desired_start - t ELSE t - desired_start

\* C17: the list find_best_available_start_times returns is in ascending
\* distance from the desired start, and of two entries at the same distance
\* the earlier instant comes first.
C17_ResultOrderedByDistance ==
    last.op = "find_best_available_start_times" =>
        \A i \in 1..Len(last.response), j \in 1..Len(last.response) :
            i < j =>
                \/ Distance(last.response[i], last.args.desired_start)
                     < Distance(last.response[j], last.args.desired_start)
                \/ /\ Distance(last.response[i], last.args.desired_start)
                        = Distance(last.response[j], last.args.desired_start)
                   /\ last.response[i] < last.response[j]

\* A result with two entries at the same distance from the desired start.
C17_Witness ==
    /\ last.op = "find_best_available_start_times"
    /\ Len(last.response) = 3
    /\ \E i \in 1..3, j \in 1..3 :
          /\ i < j
          /\ Distance(last.response[i], last.args.desired_start)
               = Distance(last.response[j], last.args.desired_start)

\* C18: the list find_best_available_start_times returns has at most
\* max_results entries, for every max_results >= 0.
C18_AtMostMaxResults ==
    last.op = "find_best_available_start_times" =>
        Len(last.response) <= last.args.max_results

\* C19: every start time find_best_available_start_times returns is
\* 15-minute aligned and lies in the closed window
\* [desired start - flexibility, desired start + flexibility].
C19_ResultAlignedInsideWindow ==
    last.op = "find_best_available_start_times" =>
        \A i \in 1..Len(last.response) :
            /\ last.response[i] % 15 = 0
            /\ last.args.desired_start - last.args.flexibility_minutes <= last.response[i]
            /\ last.response[i] <= last.args.desired_start + last.args.flexibility_minutes

\* The candidate starts generated for a desired start and a flexibility.
CandidateStarts(desired_start, flexibility_minutes) ==
    LET slots == _iter_15min_slots(desired_start - flexibility_minutes,
                                   desired_start + flexibility_minutes)
    IN  {slots[i] : i \in 1..Len(slots)}

\* C20: the set fetch_existing_bookings returns for an availability request
\* contains every booking of the business whose interval overlaps
\* [C, C + duration) for a candidate start C generated for the same desired
\* start and flexibility.
C20_FetchCoversEveryCandidate ==
    last.op = "check_availability" =>
        \A C \in CandidateStarts(last.args.desired_start_utc, last.args.flexibility_minutes) :
            \A b \in bookings :
                (/\ b.business_id = last.business_id
                 /\ b.start_time < C + DEFAULT_BOOKING_DURATION_MINUTES
                 /\ b.end_time > C)
                => b \in last.existing_bookings

\* A signal of the call context is present when it holds more than white
\* space.
Present(signal) ==
    \E i \in DOMAIN signal : \A k \in DOMAIN WhitespaceChars : signal[i] # WhitespaceChars[k]

\* The digits of a text.
DigitsOnly(text) == SelectSeq(text, LAMBDA ch : ch \in {"0", "1", "2", "3", "4", "5", "6", "7", "8", "9"})

\* Signal k of the call context, surrounding blanks removed: 1 the metadata
\* tenant reference, 2 the metadata business id, 3 the called number, 4 the
\* agent id.
Signal(call, k) ==
    strip(CASE k = 1 -> call.metadata.internal_customer_id
            [] k = 2 -> call.metadata.business_id
            [] k = 3 -> call.to_number
            [] k = 4 -> call.agent_id)

\* Signal k of the call context matches the business: a reference matches the
\* external id or the primary key, a number matches the phone or transfer
\* phone the business has, an agent id matches the agent id of its policies.
SignalMatches(call, k, business) ==
    /\ Present(Signal(call, k))
    /\ CASE k \in {1, 2} -> \/ business.external_id = Signal(call, k)
                            \/ str(business.id) = Signal(call, k)
         [] k = 3 -> \/ /\ business.phone # <<>>
                        /\ DigitsOnly(business.phone) = DigitsOnly(Signal(call, 3))
                     \/ /\ business.transfer_phone # <<>>
                        /\ DigitsOnly(business.transfer_phone) = DigitsOnly(Signal(call, 3))
         [] k = 4 -> /\ business.retell_agent_id # <<>>
                     /\ business.retell_agent_id = Signal(call, 4)

\* Signal k matches some business of the table.
MatchesAny(call, k, businesses) ==
    \E i \in DOMAIN businesses : SignalMatches(call, k, businesses[i])

Production(ENV) == ENV = <<<<"p", "r", "o", "d">>>>

NonProduction(ENV) == ENV = <<<<"D", "e", "v">>>>

\* C21: resolve returns a business matched by the highest-priority signal
\* that matches any business: when signal k matches a business and no signal
\* of higher priority does, the business returned is one signal k matches,
\* whatever lower-priority signals match and whether or not higher-priority
\* signals are present.
C21_HighestPrioritySignalWins ==
    last.op = "resolve_business" =>
        \A k \in 1..4 :
            (/\ MatchesAny(last.call, k, last.businesses)
             /\ \A j \in 1..(k - 1) : ~MatchesAny(last.call, j, last.businesses))
            => /\ last.response.kind = "business"
               /\ SignalMatches(last.call, k, last.response.business)

\* At least one of the four signals is present in the call context.
AnySignalPresent(call) == \E k \in 1..4 : Present(Signal(call, k))

\* C22: in production mode, when a signal is present and no present signal
\* matches a business, resolve fails with BusinessResolutionFailed (the
\* LookupError of the code) and returns no business.
C22_ProductionUnmatchedFails ==
    (/\ last.op = "resolve_business"
     /\ Production(last.ENV)
     /\ AnySignalPresent(last.call)
     /\ \A k \in 1..4 : ~MatchesAny(last.call, k, last.businesses))
    => last.response.kind = "LookupError"

\* C23: in production mode, a call context with none of the four signals
\* makes resolve fail with MissingTenantContext, whatever businesses exist.
C23_ProductionNoSignalFails ==
    (/\ last.op = "resolve_business"
     /\ Production(last.ENV)
     /\ ~AnySignalPresent(last.call))
    => last.response.kind = "MissingTenantContextError"

\* Production mode, a table of two businesses, and a call context whose
\* tenant reference is a tab and a space and whose called number is a tab,
\* the other signals missing: MissingTenantContext.
C23_Witness ==
    /\ last.op = "resolve_business"
    /\ Production(last.ENV)
    /\ last.call.metadata.internal_customer_id = <<"\t", " ">>
    /\ last.call.to_number = <<"\t">>
    /\ ~AnySignalPresent(last.call)
    /\ Len(last.businesses) = 2
    /\ last.response.kind = "MissingTenantContextError"

\* C24 as stated: with no signal in the call context resolve fails with
\* MissingTenantContext in every mode, and a business returned through the
\* demo fallback means a signal was present.
C24_NoSignalAlwaysFails ==
    last.op = "resolve_business" =>
        /\ ~AnySignalPresent(last.call) => last.response.kind = "MissingTenantContextError"
        /\ (last.response.kind = "business" /\ last.response.via = "demo")
              => AnySignalPresent(last.call)

\* C24 as amended: with no signal in the call context resolve fails with
\* MissingTenantContext in production mode and whenever there is no business;
\* in non-production mode with at least one business it returns one of the
\* businesses through the demo fallback.
C24_NoSignalFailsUnlessDemoFallback ==
    (last.op = "resolve_business" /\ ~AnySignalPresent(last.call)) =>
        /\ (Production(last.ENV) \/ last.businesses = <<>>)
              => last.response.kind = "MissingTenantContextError"
        /\ (NonProduction(last.ENV) /\ last.businesses # <<>>)
              => /\ last.response.kind = "business"
                 /\ last.response.via = "demo"
                 /\ \E i \in DOMAIN last.businesses :
                       last.businesses[i] = last.response.business

\* Non-production mode, no signal, two businesses: the demo fallback answered.
C24_Witness ==
    /\ last.op = "resolve_business"
    /\ NonProduction(last.ENV)
    /\ ~AnySignalPresent(last.call)
    /\ Len(last.businesses) = 2
    /\ last.response.kind = "business" /\ last.response.via = "demo"

\* C25: with the ENV setting absent, resolve returns no business through
\* the demo fallback.
C25_NoFallbackWithoutSwitch ==
    (last.op = "resolve_business" /\ last.ENV = <<>>)
    => ~(last.response.kind = "business" /\ last.response.via = "demo")

\* C26: when the metadata tenant reference equals the external id of a
\* business, resolve returns that business, whatever the other signals and
\* the other businesses are.
C26_ExternalIdReferenceWins ==
    last.op = "resolve_business" =>
        \A i \in DOMAIN last.businesses :
            (/\ last.businesses[i].external_id # <<>>
             /\ last.call.metadata.internal_customer_id = last.businesses[i].external_id)
            => /\ last.response.kind = "business"
               /\ last.response.business = last.businesses[i]

\* C27: in non-production mode a business returned through the demo fallback
\* is the one with external id "demo" if one exists, else one named
\* "Demo Restaurant" if one exists, else the first business; and resolve
\* fails only when there is no business at all.
C27_DemoFallbackOrder ==
    (last.op = "resolve_business" /\ NonProduction(last.ENV)) =>
        /\ (last.response.kind = "business" /\ last.response.via = "demo")
              => LET t == last.businesses
                     b == last.response.business
                     HasDemoId == \E i \in DOMAIN t : t[i].external_id = <<"d", "e", "m", "o">>
                     HasDemoName == \E i \in DOMAIN t : t[i].name = "Demo Restaurant"
                 IN  /\ HasDemoId => b.external_id = <<"d", "e", "m", "o">>
                     /\ (~HasDemoId /\ HasDemoName) => b.name = "Demo Restaurant"
                     /\ (~HasDemoId /\ ~HasDemoName) => b = t[1]
                     /\ \E i \in DOMAIN t : t[i] = b
        /\ last.response.kind # "business" => last.businesses = <<>>

\* Non-production mode, an unmatched signal, and a table whose first row is
\* neither the demo id nor the demo name while its second row is named
\* "Demo Restaurant": the fallback returned the second row.
C27_Witness ==
    /\ last.op = "resolve_business"
    /\ NonProduction(last.ENV)
    /\ last.response.kind = "business" /\ last.response.via = "demo"
    /\ Len(last.businesses) = 2
    /\ last.businesses[1].id = 1
    /\ last.response.business = last.businesses[2]
    /\ last.response.business.name = "Demo Restaurant"

\* The booking duration configured for a business: the
\* default_booking_duration_minutes of its policies.
ConfiguredDuration(business_id) ==
    (CHOOSE business \in PolicyBusinesses : business.id = business_id).default_booking_duration_minutes

\* C28: in every committed state reached by create and modify calls, every
\* booking's end_time equals its start_time plus the booking duration
\* configured for its business.
C28_EndIsStartPlusConfiguredDuration ==
    \A b \in bookings : b.end_time = b.start_time + ConfiguredDuration(b.business_id)

\* C29: no two customer rows of one business have the same digits-only
\* normalized phone: a create whose phone normalizes to that of an existing
\* customer of the business reuses that row.
C29_OneCustomerPerNormalizedPhone ==
    \A c1 \in customers, c2 \in customers :
        (/\ c1.business_id = c2.business_id
         /\ DigitsOnly(c1.phone) = DigitsOnly(c2.phone))
        => c1 = c2

\* This step issues the create request (business, call, raw_args).
CreateToolIssued(business, call, raw_args) ==
    \/ CreateInvalid(business, call, raw_args)
    \/ CreateAccepted(business, call, raw_args)

\* The request breaks the schema of the create args (empty name or phone,
\* party size not above 0) or comes without a call id.
InvalidCreateRequest(call, raw_args) ==
    \/ raw_args.customer_name = <<>>
    \/ raw_args.customer_phone = <<>>
    \/ raw_args.party_size <= 0
    \/ call.call_id = <<>>
    \/ call.call_id = <<"">>

\* C30: a create request whose args fail schema validation or whose call
\* context has no call id is answered INVALID_ARGS, and the step leaves
\* customers, bookings and idempotency records unchanged, starts no call and
\* makes no calendar call.
C30_InvalidCreateChangesNothing ==
    [][\A business \in PolicyBusinesses, call \in ToolCalls, raw_args \in RawCreateArgs :
          (CreateToolIssued(business, call, raw_args) /\ InvalidCreateRequest(call, raw_args))
          => /\ calls' = calls
             /\ customers' = customers /\ bookings' = bookings /\ idem' = idem
             /\ nextCustomerId' = nextCustomerId /\ nextBookingId' = nextBookingId
             /\ calendar' = calendar /\ returned' = returned
             /\ last'.response.ok = FALSE
             /\ last'.response.error_code = "INVALID_ARGS"]_vars

\* A create without call id was rejected after an earlier create had
\* committed a booking; the tables hold that one booking and its record.
C30_Witness ==
    /\ last.op = "create" /\ last.path = "rejected"
    /\ last.response.error_code = "INVALID_ARGS"
    /\ last.response.human_message = <<"Missing call.call_id">>
    /\ Cardinality(bookings) = 1 /\ Cardinality(idem) = 1 /\ Cardinality(customers) = 1

\* The 15-minute buckets of the evening the rows and the moves fall in.
FloorBuckets == {t \in 960..1320 : t % SLOT_INCREMENT_MINUTES = 0}

\* Guests of a set of rows that are seated (not cancelled) in [bucket, bucket_end).
RECURSIVE SeatedGuests(_, _, _)
SeatedGuests(rows, bucket, bucket_end) ==
    IF rows = {} THEN 0
    ELSE LET r == CHOOSE x \in rows : TRUE
         IN  (IF r.status # "cancelled" /\ r.start_time < bucket_end /\ r.end_time > bucket
              THEN r.party_size ELSE 0)
               + SeatedGuests(rows \ {r}, bucket, bucket_end)

\* Every bucket of the evening holds at most the cap of each business.
WithinCap(rows) ==
    \A business \in Businesses, bucket \in FloorBuckets :
        SeatedGuests({r \in rows : r.business_id = business.id}, bucket,
                     bucket + SLOT_INCREMENT_MINUTES)
            <= business.max_total_guests_per_15min

\* The buckets overlapping the interval of a row hold, with the seated
\* bookings of the row's business in `rows`, at most the cap.
FitsAround(business, row, rows) ==
    \A bucket \in FloorBuckets :
        (row.start_time < bucket + SLOT_INCREMENT_MINUTES /\ row.end_time > bucket)
        => SeatedGuests({r \in rows : r.business_id = business.id}, bucket,
                        bucket + SLOT_INCREMENT_MINUTES)
              <= business.max_total_guests_per_15min

\* C31: the commit of a modify served with no other call in flight (every
\* modify that commits returns ok=true), on a table that was within the cap,
\* leaves every 15-minute bucket overlapping the modified booking within the
\* cap, whether it changed the start, the party size or both.
C31_ModifyKeepsCap ==
    [][\A c \in calls :
          (/\ c.op = "modify" /\ c.pc = "commit" /\ calls = {c}
           /\ WithinCap(bookings)
           /\ ModifyCommit(c))
          => FitsAround(c.business, CHOOSE b \in bookings' : b.id = c.booking_id,
                        bookings')]_vars

\* C32: two modify calls in flight at once that have both passed their test
\* and move two different bookings of one business, on a table within the
\* cap, leave the buckets overlapping the moved bookings within the cap when
\* both are committed.
C32_ConcurrentMovesKeepCap ==
    \A c1 \in calls, c2 \in calls :
        (/\ c1.op = "modify" /\ c1.pc = "commit" /\ c1.args.start_time # None
         /\ c2.op = "modify" /\ c2.pc = "commit" /\ c2.args.start_time # None
         /\ c1.booking_id # c2.booking_id
         /\ c1.business.id = c2.business.id
         /\ WithinCap(bookings))
        => LET after == {IF b.id = c1.booking_id
                         THEN [f \in DOMAIN b |-> IF f \in DOMAIN c1.changes
                                                  THEN c1.changes[f] ELSE b[f]]
                         ELSE IF b.id = c2.booking_id
                         THEN [f \in DOMAIN b |-> IF f \in DOMAIN c2.changes
                                                  THEN c2.changes[f] ELSE b[f]]
                         ELSE b : b \in bookings}
           IN  \A b \in after :
                  b.id \in {c1.booking_id, c2.booking_id}
                  => FitsAround(c1.business, b, after)

\* C33: when the availability query has offered start S for party size P and
\* a create then books S for P with nothing else written in between, no
\* 15-minute bucket overlapping the stored interval of the new booking
\* exceeds the cap, whatever default_booking_duration_minutes the policy sets.
C33_OfferedStartBookedWithinCap ==
    (last.op = "create" /\ last.path = "created")
    => \A business \in DurationBusinesses, b \in bookings :
          (b.id = last.response.data.booking_id /\ b.business_id = business.id)
          => FitsAround(business, b, bookings)

\* The feasibility test of a candidate start for a query: every 15-minute
\* bucket of [start, start + duration) holds, with the requested party and the
\* non-cancelled existing bookings overlapping it, at most the cap.
FeasibleStart(q, start) ==
    \A bucket \in BucketsOf(start, q.booking_duration_minutes) :
        q.party_size + ListGuests(q.existing_bookings, bucket, bucket + 15)
            <= q.max_total_guests_per_15_min

\* Candidate a is ranked before candidate b: nearer to the desired start, or
\* as near and earlier.
RankedAhead(a, b, desired_start) ==
    \/ Distance(a, desired_start) < Distance(b, desired_start)
    \/ Distance(a, desired_start) = Distance(b, desired_start) /\ a < b

\* C34: the result of find_best_available_start_times is the first
\* max_results feasible candidates in ranked order: every entry is a feasible
\* candidate, there are at most max_results entries, no feasible candidate
\* ranked before an entry is left out, and when fewer than max_results
\* entries are returned every candidate left out is infeasible.
C34_ResultIsFirstFeasibleCandidates ==
    last.op = "find_best_available_start_times" =>
        LET q == last.args
            candidates == CandidateStarts(q.desired_start, q.flexibility_minutes)
            result == {last.response[i] : i \in 1..Len(last.response)}
        IN  /\ \A r \in result : r \in candidates /\ FeasibleStart(q, r)
            /\ Len(last.response) <= q.max_results
            /\ \A r \in result, c \in candidates :
                  (FeasibleStart(q, c) /\ RankedAhead(c, r, q.desired_start))
                  => c \in result
            /\ Len(last.response) < q.max_results
                  => \A c \in candidates \ result : ~FeasibleStart(q, c)

\* Guests of the non-cancelled entries of a list that overlap both the bucket
\* [bucket, bucket_end) and the stay [start, end).
RECURSIVE StayGuests(_, _, _, _, _)
StayGuests(list, bucket, bucket_end, start, end) ==
    IF list = <<>> THEN 0
    ELSE LET b == Head(list)
         IN  (IF /\ b.status # "cancelled"
                 /\ b.start_time < bucket_end /\ b.end_time > bucket
                 /\ b.start_time < end /\ b.end_time > start
              THEN b.party_size ELSE 0)
               + StayGuests(Tail(list), bucket, bucket_end, start, end)

\* C35: is_slot_available rejects candidate C with duration D only if in some
\* 15-minute bucket of [C, C + D) the requested party plus the non-cancelled
\* bookings overlapping the stay exceed the cap; cancelled bookings, bookings
\* ending at C and bookings starting at C + D do not count, also when D is
\* not a multiple of 15.
C35_RejectedOnlyWhenOverCap ==
    (last.op = "is_slot_available" /\ last.response = FALSE)
    => LET a == last.args
           C == a.candidate_start
           D == a.booking_duration_minutes
       IN  \E bucket \in BucketsOf(C, D) :
              a.party_size + StayGuests(a.existing_bookings, bucket, bucket + 15, C, C + D)
                  > a.max_total_guests_per_15_min

\* C37: is_slot_available never accepts a request whose party size alone
\* exceeds the cap, whatever the existing bookings are.
C37_OversizedPartyNeverAccepted ==
    (last.op = "is_slot_available"
       /\ last.args.party_size > last.args.max_total_guests_per_15_min)
    => last.response = FALSE

\* In some bucket of the new interval the other confirmed bookings of the
\* business overlapping it, together with the party, exceed the cap.
OthersFill(business, moved_id, start, party_size) ==
    \E bucket \in BucketsOf(start, BOOKING_DURATION_MINUTES) :
        LET others == ConfirmedIn(business.id, bucket, bucket + 15,
                                  {b \in bookings : b.id # moved_id})
        IN  others # {} /\ party_size + Guests(others) > business.max_total_guests_per_15min

\* C36: the feasibility test of a modify that changes the start time of a
\* confirmed booking counts the other confirmed bookings of the business
\* that overlap the new interval when the test is made, and not the booking
\* itself: the move is accepted whenever the others leave room for the party
\* size of the request (the new one, or the one the request read from the
\* booking), and rejected with NO_AVAILABILITY when the others together with
\* the party exceed the cap in some bucket.
C36_MoveCountsOthersOnly ==
    [][\A c \in calls :
          (/\ c.op = "modify" /\ c.pc = "fetch" /\ c \notin calls'
           /\ \E b \in bookings : b.id = c.booking_id /\ b.status = "confirmed")
          => LET b == CHOOSE r \in bookings : r.id = c.booking_id
                 party_size == c.new_party_size
             IN  /\ Feasible(c.business, b.id, c.args.start_time[1], party_size)
                       => /\ \E d \in calls' : d.n = c.n /\ d.pc = "commit"
                          /\ last' = last
                 /\ OthersFill(c.business, b.id, c.args.start_time[1], party_size)
                       => /\ \A d \in calls' : d.n # c.n
                          /\ bookings' = bookings
                          /\ last'.response.ok = FALSE
                          /\ last'.response.error_code = "NO_AVAILABILITY"]_vars

\* The party of 2 booked for 19:30 was moved to 18:45, into its own old
\* interval, while a party of 1 sits at 18:45 under a cap of 3: counted
\* together with itself the move would not have fitted.
C36_Witness ==
    /\ last.op = "modify" /\ last.path = "modified" /\ last.booking_id = 4
    /\ issued = 1
    /\ \E b \in bookings : b.id = 4 /\ b.start_time = 1125 /\ b.party_size = 2
    /\ \E b \in bookings : b.id = 3 /\ b.start_time = 1125 /\ b.status = "confirmed"
    /\ 2 + 2 + 1 > CapPolicy

\* The key text is made of these three fields: it is their joined text, or
\* goes on after it with a further "|" field.
KeyedBy(key, fields) ==
    /\ Len(key) >= Len(fields)
    /\ SubSeq(key, 1, Len(fields)) = fields
    /\ Len(key) > Len(fields) => key[Len(fields) + 1] = "|"

\* The record of a create that succeeded for this call id, start time and
\* customer phone, and has returned: its calendar call is no longer pending.
EarlierCreate(call_id, args) ==
    {r \in idem :
        /\ KeyedBy(r.key, RequestKey(call_id, args))
        /\ r.response_json.data.start_time = isoformat(args.start_time)
        /\ r.response_json.data.customer_phone = args.customer_phone
        /\ ~\E c \in calls : c.op = "create" /\ c.pc = "calendar" /\ c.key = r.key}

\* C38: a create that repeats the call id, start time and customer phone of
\* an earlier successful create and carries another party size, customer name
\* or notes creates no booking, returns the response the earlier create
\* returned, and changes no booking and no customer row: the booking keeps
\* the party size and notes of the earlier create.
C38_RepeatWithOtherDetailsChangesNothing ==
    [][\A business \in RepeatBusinesses, call_id \in RepeatCallIds, args \in RepeatArgs :
          (/\ \E r \in EarlierCreate(call_id, args) :
                 \/ r.response_json.data.party_size # args.party_size
                 \/ r.response_json.data.customer_name # args.customer_name
                 \/ r.response_json.data.notes # args.notes
           /\ CreateIssued(business, call_id, args))
          => /\ calls' = calls
             /\ bookings' = bookings /\ customers' = customers /\ idem' = idem
             /\ \E r \in EarlierCreate(call_id, args) :
                   /\ last'.response = r.response_json
                   /\ <<r.key, r.response_json>> \in returned
                   /\ \E b \in bookings' :
                         /\ b.id = r.response_json.data.booking_id
                         /\ b.party_size = r.response_json.data.party_size
                         /\ b.notes = r.response_json.data.notes
                   /\ \E c \in customers' :
                         c.id = r.response_json.data.customer_id]_vars

\* A repeat with another party size, name and notes came back with the
\* stored response, which carries the calendar warning of the first create;
\* one booking and one customer are stored, with the first create's values.
C38_Witness ==
    /\ last.op = "create" /\ last.path = "replay"
    /\ last.args.party_size # last.response.data.party_size
    /\ last.args.customer_name # last.response.data.customer_name
    /\ last.args.notes # last.response.data.notes
    /\ "warning" \in DOMAIN last.response.data
    /\ calls = {} /\ issued = 2
    /\ Cardinality(bookings) = 1 /\ Cardinality(customers) = 1
    /\ \A b \in bookings : b.party_size = last.response.data.party_size
    /\ \A c \in customers : c.name = last.response.data.customer_name

\* C39: in every committed state reached by create calls, whatever their
\* interleaving, one business has at most one customer row per phone.
C39_OneCustomerPerPhone ==
    \A c1 \in customers, c2 \in customers :
        (c1.business_id = c2.business_id /\ c1.phone = c2.phone) => c1.id = c2.id

\* C40: resolution by the called number returns a business only if the
\* digits of the called number are not empty and equal the digits of the
\* phone or of the transfer phone of that business; a called number without
\* digits matches no business, also not one whose phone or transfer phone is
\* unset.
C40_PhoneMatchNeedsDigits ==
    (/\ last.op = "resolve_business"
     /\ last.response.kind = "business"
     /\ last.response.via = "to_number")
    => /\ DigitsOnly(last.call.to_number) # <<>>
       /\ \/ DigitsOnly(last.response.business.phone) = DigitsOnly(last.call.to_number)
          \/ DigitsOnly(last.response.business.transfer_phone)
                = DigitsOnly(last.call.to_number)

====
